---- MODULE Spec2Model ----
(***************************************************************************)
(* A model of the SelfDB JavaScript SDK core:                              *)
(*   - HttpClient.request (utils): the retry loop around axios,            *)
(*   - AuthClient (auth/client.ts): the session state, its persistence and *)
(*     makeAuthenticatedRequest,                                           *)
(*   - RealtimeClient (realtime/client.ts): the socket, its timers and the *)
(*     connection state.                                                   *)
(* Asynchronous calls are tasks on one event loop: a task runs from one    *)
(* await to the next as one step, and tasks interleave at the awaits.      *)
(***************************************************************************)
EXTENDS Integers, Sequences, FiniteSets, TLC

VARIABLES
    \* ---- AuthClient and its environment
    constructed,    \* the AuthClient constructor has run
    isServer,       \* utils: typeof window === 'undefined'
    store,          \* localStorage: key -> string or NULL
    throwing,       \* the methods of localStorage that throw when they are called
    authState,      \* AuthClient.authState
    twinAuth,       \* the authState of a twin AuthClient over a localStorage that does
                    \* not throw, given the same calls and the same answers
    task,           \* the asynchronous calls in flight, one record per caller
    ops,            \* number of calls started so far
    callers,        \* the callers there are: each has at most one call in flight
    faults,         \* the network may fail a request in a way Transport retries
    anonKey,        \* Config.anonKey: the anonymous key, or NULL when none is configured
    \* ---- RealtimeClient and its environment
    rtConfig,       \* RealtimeClient.realtimeConfig and whether new WebSocket throws
    ws,             \* RealtimeClient.ws: a socket id or NoSocket
    sockets,        \* every WebSocket created so far: id -> readyState
    connectionState,\* RealtimeClient.connectionState
    reconnectTimeout, \* RealtimeClient.reconnectTimeout: a timer id or NoTimer
    timers,         \* the reconnect timers that are pending (setTimeout not yet fired or cleared)
    timersMade,     \* number of reconnect timers ever started
    heartbeatInterval, \* RealtimeClient.heartbeatInterval: an interval id or NoTimer
    intervals,      \* the heartbeat intervals that are live
    intervalsMade,  \* number of heartbeat intervals ever started
    retryCount,     \* RealtimeClient.retryCount
    wantOff,        \* the caller's last call was disconnect(), not connect()
    subscriptions,  \* RealtimeClient.subscriptions: the entries of the Map, in its order
    now,            \* Date.now()
    subsMade,       \* number of subscribe() calls so far: each brings its own callback
    dispatched,     \* the last inbound frame and the callbacks it invoked, while the
                    \* registry is as it was when the frame came
    handshake,      \* per socket: the credential of the authenticate frame sent on it,
                    \* or NULL when none was sent
    effects,        \* what the last step did besides changing fields: the frames the
                    \* handler sent, the promise it resolved, the timer delay it asked for
    handles,        \* the Subscription objects subscribe() returned, by callback: the id
                    \* each carries and whether unsubscribe was called with that id since
    \* ---- the database client
    dbVersion,      \* which of the two db/client.ts of the repository is in use
    whereConditions,\* QueryBuilder.whereConditions: key -> value, NULL for a key not set
    dbCall,         \* the last update or delete call: its conditions, the error it threw
                    \* before any request, the requests it issued
    \* ---- Config
    instance,       \* Config.instance: the Config object that is the singleton, or NoInstance
    made,           \* number of Config objects init() has made; the last made has this number
    instanceConfig, \* the private config of the Config object that is the singleton
    cfgCall         \* the last call of Config: what it returned or that it threw

authVars == <<constructed, isServer, store, throwing, authState, twinAuth, task, ops, callers,
             faults, anonKey>>
subVars == <<subscriptions, now, subsMade, dispatched, handles>>
rtVars == <<rtConfig, ws, sockets, connectionState, reconnectTimeout, timers, timersMade,
            heartbeatInterval, intervals, intervalsMade, retryCount, wantOff, handshake,
            effects, subVars>>
dbVars == <<dbVersion, whereConditions, dbCall>>
cfgVars == <<instance, made, instanceConfig, cfgCall>>
vars == <<authVars, rtVars, dbVars, cfgVars>>

----------------------------------------------------------------------------
(* Bounds of the model *)

\* calls the callers start in one behaviour
MaxOps == 3
\* init() calls in one behaviour
MaxInits == 2
\* sockets the realtime client may create in one behaviour
MaxSockets == 4
\* the maxRetries the realtime client is configured with
CfgMaxRetries == 2
\* subscribe() calls in one behaviour
MaxSubs == 2
\* milliseconds the clock advances in one behaviour
MaxClock == 1

Tasks == {"t1", "t2"}

----------------------------------------------------------------------------
(* Values *)

NULL == "<null>"
NoTokens == [none |-> TRUE]

Keys == {"access_token", "refresh_token", "selfdb_user"}
AccessTokens == {"a1", "a2"}
RefreshTokens == {"r1"}
Users == {"u1", "u2"}

\* JSON.stringify of a user record
JSONstringify(u) == CASE u = "u1" -> "{u1}" [] u = "u2" -> "{u2}" [] OTHER -> "null"

\* JSON.parse: the value, or a SyntaxError. The text "null" parses, to null.
JSONparse(s) ==
    CASE s = "{u1}" -> [ok |-> TRUE, value |-> "u1"]
      [] s = "{u2}" -> [ok |-> TRUE, value |-> "u2"]
      [] s = "null" -> [ok |-> TRUE, value |-> NULL]
      [] OTHER -> [ok |-> FALSE, value |-> NULL]

\* what localStorage may hold under selfdb_user when the client is constructed
UserEntries == {NULL, "{u1}", "null", "{u1"}

\* JavaScript truthiness of a string or null
Truthy(v) == v # NULL /\ v # ""

\* the anonymous key the SDK may be configured with
AnonKeys == {NULL, "anon"}

\* request headers: a value for each name, NULL for a header that is absent
HeaderNames == {"apikey", "Authorization", "Accept"}
NoHeaders == [h \in HeaderNames |-> NULL]

\* config.headers as a caller of makeAuthenticatedRequest may supply them
CallerHeaders ==
    {NoHeaders,
     [apikey |-> "caller-key", Authorization |-> "Bearer caller", Accept |-> "json"]}

\* the spread with its operands in the other order: the headers of a win
spread_firstWins(a, b) == [h \in HeaderNames |-> IF a[h] # NULL THEN a[h] ELSE b[h]]

\* { ...a, ...b }: the headers of a, overridden by those b has
spread(a, b) == [h \in HeaderNames |-> IF b[h] # NULL THEN b[h] ELSE a[h]]

----------------------------------------------------------------------------
(* utils: the key-value store *)

StorageMethods == {"getItem", "setItem", "removeItem"}

\* getStorageItem whose catch hands on what it was to read
getStorageItem_readsOn(st, key) == IF isServer THEN NULL ELSE st[key]

\* getStorageItem: lines 106-113
getStorageItem(st, key) ==
    IF isServer THEN NULL
    ELSE IF "getItem" \in throwing THEN NULL
    ELSE st[key]

\* setStorageItem: lines 115-122
setStorageItem(st, key, value) ==
    IF isServer THEN st
    ELSE IF "setItem" \in throwing THEN st
    ELSE [st EXCEPT ![key] = value]

\* removeStorageItem: lines 124-131
removeStorageItem(st, key) ==
    IF isServer THEN st
    ELSE IF "removeItem" \in throwing THEN st
    ELSE [st EXCEPT ![key] = NULL]

\* a localStorage that does not throw, holding what the reads of st deliver
Delivered(st) ==
    [k \in Keys |-> IF isServer \/ "getItem" \in throwing THEN NULL ELSE st[k]]

----------------------------------------------------------------------------
(* AuthClient: the auth state and its persistence *)

EmptyAuthState == [user |-> NULL, tokens |-> NoTokens, isAuthenticated |-> FALSE]

\* clearAuthState that forgets to remove the user entry
clearAuthState_keepsUserEntry(st) ==
    [auth |-> [user |-> NULL, tokens |-> NoTokens, isAuthenticated |-> FALSE],
     store |-> removeStorageItem(removeStorageItem(st, "access_token"), "refresh_token")]

\* clearAuthState: the pair (authState, store) after it
clearAuthState(st) ==
    [auth |-> EmptyAuthState,
     store |-> removeStorageItem(removeStorageItem(removeStorageItem(st,
                  "access_token"), "refresh_token"), "selfdb_user")]

\* saveAuthState: the store after it
saveAuthState(as, st) ==
    IF as.tokens # NoTokens /\ Truthy(as.user)
    THEN setStorageItem(setStorageItem(setStorageItem(st,
             "access_token", as.tokens.accessToken),
             "refresh_token", as.tokens.refreshToken),
             "selfdb_user", JSONstringify(as.user))
    ELSE st

\* line 36 without its test of the refresh token
allPresent_noRefreshToken(accessToken, refreshToken, userString) ==
    Truthy(accessToken) /\ Truthy(userString)

\* loadAuthState, line 36: the three entries are there
allPresent(accessToken, refreshToken, userString) ==
    Truthy(accessToken) /\ Truthy(refreshToken) /\ Truthy(userString)

\* loadAuthState: the pair (authState, store) after it, from the initial authState
loadAuthState(as, st) ==
    LET accessToken == getStorageItem(st, "access_token")
        refreshToken == getStorageItem(st, "refresh_token")
        userString == getStorageItem(st, "selfdb_user")
    IN IF allPresent(accessToken, refreshToken, userString)
       THEN IF JSONparse(userString).ok
            THEN [auth |-> [user |-> JSONparse(userString).value,
                            tokens |-> [accessToken |-> accessToken,
                                        refreshToken |-> refreshToken],
                            isAuthenticated |-> TRUE],
                  store |-> st]
            ELSE clearAuthState(st)
       ELSE [auth |-> as, store |-> st]

\* the headers login, register and refresh build: the anonymous key if there is one
anonHeaders(key) == [NoHeaders EXCEPT !["apikey"] = IF Truthy(key) THEN key ELSE NULL]

\* getAuthHeaders: lines 69-83
getAuthHeaders(as, key) ==
    [anonHeaders(key) EXCEPT !["Authorization"] =
        IF as.isAuthenticated /\ as.tokens # NoTokens
        THEN "Bearer " \o as.tokens.accessToken ELSE NULL]

----------------------------------------------------------------------------
(* HttpClient (utils): one request is a loop of axios calls *)

\* retryConfig, as the constructor defaults it
maxRetries == 3
baseDelay == 1000
maxDelay == 10000

Min(a, b) == IF a <= b THEN a ELSE b

\* calculateDelay growing by baseDelay each time instead of doubling
calculateDelay_linear(attempt) == Min(baseDelay * (attempt + 1), maxDelay)

calculateDelay(attempt) == Min(baseDelay * (2 ^ attempt), maxDelay)

\* How one axios call may end: a 2xx response; an AxiosError with a response
\* (H401, H404, H500), with code ECONNABORTED (TMO) or with neither (NET); or an
\* error that is no AxiosError, thrown by a hook of the caller's request config
\* (adapter, transformRequest, ...): an AuthError (XAUTH) or any other (XOTHER).
Outcomes == {"OK", "H401", "H404", "H500", "TMO", "NET", "XAUTH", "XOTHER"}

isAxiosError(o) == o \in {"H401", "H404", "H500", "TMO", "NET"}

\* error.response?.status, 0 when there is no response
Status(o) == CASE o = "H401" -> 401 [] o = "H404" -> 404 [] o = "H500" -> 500 [] OTHER -> 0

NoData == [access |-> NULL, refresh |-> NULL, user |-> NULL]
NoResult == [kind |-> "none", cls |-> "", status |-> 0, req |-> 0, data |-> NoData, body |-> ""]

\* a value returned (req: the ordinal of the request of the call that produced it)
Ok(req, data) ==
    [kind |-> "ok", cls |-> "", status |-> 200, req |-> req, data |-> data, body |-> ""]

\* an error thrown (body: error.data, the body of the response of an ApiError)
Err(cls, status, req) ==
    [kind |-> "err", cls |-> cls, status |-> status, req |-> req, data |-> NoData, body |-> ""]

\* error.response.data: the body the backend sends with an error status
ErrorBody(o) ==
    CASE o = "H401" -> "unauthorized" [] o = "H404" -> "not found"
      [] o = "H500" -> "server error" [] OTHER -> ""

\* handleAxiosError testing for a response before it tests for a timeout
handleAxiosError_responseFirst(o, req) ==
    IF Status(o) = 0 THEN Err("NetworkError", 0, req)
    ELSE IF o = "TMO" THEN Err("TimeoutError", 0, req)
    ELSE [Err("ApiError", Status(o), req) EXCEPT !.body = ErrorBody(o)]

\* handleAxiosError: the typed error it throws for an AxiosError
handleAxiosError(o, req) ==
    IF o = "TMO" THEN Err("TimeoutError", 0, req)
    ELSE IF Status(o) = 0 THEN Err("NetworkError", 0, req)
    ELSE [Err("ApiError", Status(o), req) EXCEPT !.body = ErrorBody(o)]

\* the error of line 70: what axios threw, rethrown as it is
thrownByAxios(o, req) ==
    IF o = "XAUTH" THEN Err("AuthError", 401, req) ELSE Err("Error", 0, req)

\* a call that is not running
IdleTask ==
    [op |-> "idle", pc |-> "idle", phase |-> "none",
     attempt |-> 0, lastError |-> "NONE", delays |-> <<>>, reqResult |-> NoResult,
     answers |-> <<>>, responseData |-> NoData, sent |-> 0, issued |-> 0, calm |-> FALSE,
     firstErr |-> NoResult, firstSent |-> 0, heldRefresh |-> FALSE,
     refreshCalls |-> 0, requests |-> 0, wasAuth |-> FALSE,
     configHeaders |-> NoHeaders, headers |-> NoHeaders,
     stale |-> FALSE, result |-> NoResult]

\* HttpClient.request is entered: lines 51-59
issueRequest(tk) ==
    [tk EXCEPT !.pc = "await", !.attempt = 0, !.lastError = "NONE", !.delays = <<>>,
               !.answers = <<>>, !.responseData = NoData, !.reqResult = NoResult,
               !.issued = @ + 1]

\* the request ends, with a value or an error, and its caller is to resume
requestReturns(tk, res) == [tk EXCEPT !.pc = "returned", !.reqResult = res]

\* line 65 with 400 for 500: a 4xx response is retried
failsFast_below400(o, attempt) == Status(o) # 0 /\ Status(o) < 400 /\ attempt = 0

\* line 65: a response below 500 to the first axios call ends the request
failsFast(o, attempt) == Status(o) # 0 /\ Status(o) < 500 /\ attempt = 0

\* One iteration of the loop of HttpClient.request, lines 59-78, on the outcome o of
\* its axios call, and lines 80-84 when the loop ends.
requestAttempt(tk, o, data) ==
    LET t1 == [tk EXCEPT !.sent = @ + 1, !.answers = Append(@, o), !.responseData = data]
    IN IF o = "OK" THEN requestReturns(t1, Ok(tk.issued, data))
       ELSE IF isAxiosError(o)
       THEN IF failsFast(o, tk.attempt)
            THEN requestReturns(t1, handleAxiosError(o, tk.issued))
            ELSE IF tk.attempt < maxRetries
                 THEN [t1 EXCEPT !.lastError = o,
                                 !.delays = Append(@, calculateDelay(tk.attempt)),
                                 !.attempt = @ + 1]
                 ELSE requestReturns([t1 EXCEPT !.lastError = o, !.attempt = @ + 1],
                                     handleAxiosError(o, tk.issued))
       ELSE requestReturns(t1, thrownByAxios(o, tk.issued))

\* what the backend may answer to the next axios call of a call: anything, unless
\* the backend is healthy again after its first answer (calm)
ServerAnswers(tk) ==
    IF tk.calm /\ tk.sent >= 1 THEN {"OK"}
    ELSE IF faults THEN Outcomes
    ELSE Outcomes \ {"H500", "TMO", "NET"}

\* the body of a 2xx response, by endpoint
ResponseData(tk) ==
    IF tk.op = "login"
    THEN [access : AccessTokens, refresh : RefreshTokens, user : Users]
    ELSE IF tk.op = "refresh" \/ (tk.op = "mar" /\ tk.phase = "refresh")
    THEN [access : AccessTokens, refresh : {NULL}, user : {NULL}]
    ELSE IF tk.op = "getUser"
    THEN [access : {NULL}, refresh : {NULL}, user : Users]
    ELSE {NoData}

----------------------------------------------------------------------------
(* AuthClient: construction *)

\* new AuthClient(): the constructor runs loadAuthState
Construct ==
    /\ ~constructed
    /\ constructed' = TRUE
    /\ authState' = loadAuthState(EmptyAuthState, store).auth
    /\ twinAuth' = loadAuthState(EmptyAuthState, Delivered(store)).auth
    /\ store' = loadAuthState(EmptyAuthState, store).store
    /\ UNCHANGED <<isServer, throwing, task, ops, callers, faults, anonKey, rtVars, dbVars, cfgVars>>

\* a caller may start a call on task t
CanStart(t) == constructed /\ t \in callers /\ task[t].pc = "idle" /\ ops < MaxOps

\* the call of task t starts: the backend may be healthy after its first answer
Started(t, op, phase, calm) ==
    [IdleTask EXCEPT !.op = op, !.phase = phase, !.calm = calm,
                     !.wasAuth = authState.isAuthenticated]

\* the call of task t ends with res
Finish(tk, res) ==
    [tk EXCEPT !.pc = "done", !.result = res, !.reqResult = NoResult, !.answers = <<>>,
               !.responseData = NoData, !.configHeaders = NoHeaders, !.headers = NoHeaders,
               !.attempt = 0, !.lastError = "NONE", !.delays = <<>>, !.stale = FALSE]

----------------------------------------------------------------------------
(* HttpClient.request, as a step of the task that awaits it *)

\* The axios call of the request of task t ends, and the loop of HttpClient.request
\* runs to its next axios call or to its end.
Request_Attempt(t) ==
    /\ task[t].pc = "await"
    /\ \E o \in ServerAnswers(task[t]) :
         \E data \in (IF o = "OK" THEN ResponseData(task[t]) ELSE {NoData}) :
            task' = [task EXCEPT ![t] = requestAttempt(task[t], o, data)]
    /\ UNCHANGED <<constructed, isServer, throwing, store, authState, twinAuth, ops, callers, faults, anonKey, rtVars, dbVars, cfgVars>>

----------------------------------------------------------------------------
(* AuthClient.login *)

\* login(): lines 85-103, up to the await of the POST
login(t) ==
    /\ CanStart(t)
    /\ \E calm \in BOOLEAN :
         task' = [task EXCEPT ![t] = issueRequest(
            [Started(t, "login", "only", calm) EXCEPT !.headers = anonHeaders(anonKey)])]
    /\ ops' = ops + 1
    /\ UNCHANGED <<constructed, isServer, throwing, store, authState, twinAuth, callers, faults, anonKey, rtVars, dbVars, cfgVars>>

\* the auth state login sets from a response: lines 106-122
loginState(data) ==
    [user |-> data.user,
     tokens |-> [accessToken |-> data.access, refreshToken |-> data.refresh],
     isAuthenticated |-> TRUE]

\* login(): lines 105-130 after the POST returned, or its error thrown on
login_resume(t) ==
    /\ task[t].op = "login" /\ task[t].pc = "returned"
    /\ IF task[t].reqResult.kind = "ok"
       THEN /\ authState' = loginState(task[t].reqResult.data)
            /\ twinAuth' = loginState(task[t].reqResult.data)
            /\ store' = saveAuthState(loginState(task[t].reqResult.data), store)
       ELSE UNCHANGED <<authState, twinAuth, store>>
    /\ task' = [task EXCEPT ![t] = Finish(task[t], task[t].reqResult)]
    /\ UNCHANGED <<constructed, isServer, throwing, ops, callers, faults, anonKey, rtVars, dbVars, cfgVars>>

----------------------------------------------------------------------------
(* AuthClient.register *)

\* register(): lines 133-140, up to the await of the POST
register(t) ==
    /\ CanStart(t)
    /\ \E calm \in BOOLEAN :
         task' = [task EXCEPT ![t] = issueRequest(
            [Started(t, "register", "only", calm) EXCEPT !.headers = anonHeaders(anonKey)])]
    /\ ops' = ops + 1
    /\ UNCHANGED <<constructed, isServer, throwing, store, authState, twinAuth, callers, faults, anonKey, rtVars, dbVars, cfgVars>>

\* register() logging the new user in when the POST succeeded
register_resume_logsIn(t) ==
    /\ task[t].op = "register" /\ task[t].pc = "returned"
    /\ authState' = IF task[t].reqResult.kind = "ok"
                    THEN [authState EXCEPT !.isAuthenticated = TRUE] ELSE authState
    /\ twinAuth' = IF task[t].reqResult.kind = "ok"
                   THEN [twinAuth EXCEPT !.isAuthenticated = TRUE] ELSE twinAuth
    /\ task' = [task EXCEPT ![t] = Finish(task[t], task[t].reqResult)]
    /\ UNCHANGED <<constructed, isServer, throwing, store, ops, callers, faults, anonKey, rtVars, dbVars, cfgVars>>

\* register(): lines 140-143 after the POST returned
register_resume(t) ==
    /\ task[t].op = "register" /\ task[t].pc = "returned"
    /\ task' = [task EXCEPT ![t] = Finish(task[t], task[t].reqResult)]
    /\ UNCHANGED <<constructed, isServer, throwing, store, authState, twinAuth, ops, callers, faults, anonKey, rtVars, dbVars, cfgVars>>

----------------------------------------------------------------------------
(* AuthClient.refresh *)

\* this.authState.tokens?.refreshToken
refreshTokenOf(as) == IF as.tokens = NoTokens THEN NULL ELSE as.tokens.refreshToken

\* refresh() without the test of line 147: the POST is sent without a refresh token
refresh_postsAnyway(t) ==
    /\ CanStart(t)
    /\ \E calm \in BOOLEAN :
         task' = [task EXCEPT ![t] =
            issueRequest([Started(t, "refresh", "only", calm) EXCEPT
                             !.refreshCalls = 1, !.headers = anonHeaders(anonKey)])]
    /\ ops' = ops + 1
    /\ UNCHANGED <<constructed, isServer, throwing, store, authState, twinAuth, callers, faults, anonKey, rtVars, dbVars, cfgVars>>

\* refresh(): lines 147-161, up to the await of the POST, or the AuthError of line 148
refresh(t) ==
    /\ CanStart(t)
    /\ \E calm \in BOOLEAN :
         task' = [task EXCEPT ![t] =
            IF ~Truthy(refreshTokenOf(authState))
            THEN Finish(Started(t, "refresh", "only", FALSE), Err("AuthError", 401, 0))
            ELSE issueRequest([Started(t, "refresh", "only", calm) EXCEPT
                                  !.refreshCalls = 1, !.headers = anonHeaders(anonKey)])]
    /\ ops' = ops + 1
    /\ UNCHANGED <<constructed, isServer, throwing, store, authState, twinAuth, callers, faults, anonKey, rtVars, dbVars, cfgVars>>

\* refresh(): lines 163-166, the auth state after a successful POST
refreshedState(as, data) ==
    IF as.tokens # NoTokens THEN [as EXCEPT !.tokens.accessToken = data.access] ELSE as

\* refresh(): lines 163-166, the store after a successful POST
refreshedStore(as, st, data) ==
    IF as.tokens # NoTokens THEN saveAuthState(refreshedState(as, data), st) ELSE st

\* refresh(): lines 163-168 after the POST returned, or its error thrown on
refresh_resume(t) ==
    /\ task[t].op = "refresh" /\ task[t].pc = "returned"
    /\ IF task[t].reqResult.kind = "ok"
       THEN /\ authState' = refreshedState(authState, task[t].reqResult.data)
            /\ twinAuth' = refreshedState(twinAuth, task[t].reqResult.data)
            /\ store' = refreshedStore(authState, store, task[t].reqResult.data)
       ELSE UNCHANGED <<authState, twinAuth, store>>
    /\ task' = [task EXCEPT ![t] = Finish(task[t], task[t].reqResult)]
    /\ UNCHANGED <<constructed, isServer, throwing, ops, callers, faults, anonKey, rtVars, dbVars, cfgVars>>

----------------------------------------------------------------------------
(* AuthClient.logout *)

\* a call that awaits its request when logout() runs: its request was issued before
\* that logout (stale, which no code reads)
duringLogout(tk) ==
    IF tk.pc \in {"await", "returned"} THEN [tk EXCEPT !.stale = TRUE] ELSE tk

\* logout(): lines 171-175
logout(t) ==
    /\ CanStart(t)
    /\ authState' = clearAuthState(store).auth
    /\ twinAuth' = clearAuthState(store).auth
    /\ store' = clearAuthState(store).store
    /\ task' = [u \in Tasks |->
                   IF u = t THEN Finish(Started(t, "logout", "only", FALSE), Ok(0, NoData))
                   ELSE duringLogout(task[u])]
    /\ ops' = ops + 1
    /\ UNCHANGED <<constructed, isServer, throwing, callers, faults, anonKey, rtVars, dbVars, cfgVars>>

----------------------------------------------------------------------------
(* AuthClient.getUser *)

\* getUser(): lines 178-185, up to the await of the GET, or the null of line 179
getUser(t) ==
    /\ CanStart(t)
    /\ \E calm \in BOOLEAN :
         task' = [task EXCEPT ![t] =
            IF ~authState.isAuthenticated
            THEN Finish(Started(t, "getUser", "only", FALSE), Ok(0, NoData))
            ELSE issueRequest([Started(t, "getUser", "only", calm) EXCEPT
                                  !.headers = getAuthHeaders(authState, anonKey)])]
    /\ ops' = ops + 1
    /\ UNCHANGED <<constructed, isServer, throwing, store, authState, twinAuth, callers, faults, anonKey, rtVars, dbVars, cfgVars>>

\* getUser(): lines 187-195 after the GET returned or threw
getUser_resume(t) ==
    /\ task[t].op = "getUser" /\ task[t].pc = "returned"
    /\ IF task[t].reqResult.kind = "ok"
       THEN /\ authState' = [authState EXCEPT !.user = task[t].reqResult.data.user]
            /\ twinAuth' = [twinAuth EXCEPT !.user = task[t].reqResult.data.user]
            /\ store' = saveAuthState([authState EXCEPT !.user = task[t].reqResult.data.user],
                                      store)
       ELSE IF task[t].reqResult.cls = "AuthError"
       THEN /\ authState' = clearAuthState(store).auth
            /\ twinAuth' = clearAuthState(store).auth
            /\ store' = clearAuthState(store).store
       ELSE UNCHANGED <<authState, twinAuth, store>>
    /\ task' = [task EXCEPT ![t] = Finish(task[t], task[t].reqResult)]
    /\ UNCHANGED <<constructed, isServer, throwing, ops, callers, faults, anonKey, rtVars, dbVars, cfgVars>>

----------------------------------------------------------------------------
(* AuthClient.makeAuthenticatedRequest *)

\* makeAuthenticatedRequest(): lines 241-250, up to the await of the first request
makeAuthenticatedRequest(t) ==
    /\ CanStart(t)
    /\ \E calm \in BOOLEAN, config \in CallerHeaders :
         task' = [task EXCEPT ![t] =
            issueRequest([Started(t, "mar", "first", calm) EXCEPT
                             !.requests = 1,
                             !.configHeaders = config,
                             !.headers = spread(config, getAuthHeaders(authState, anonKey))])]
    /\ ops' = ops + 1
    /\ UNCHANGED <<constructed, isServer, throwing, store, authState, twinAuth, callers, faults, anonKey, rtVars, dbVars, cfgVars>>

\* line 252: the error of the first request sends the call to refresh and retry
entersRefresh(err, as) == err.cls = "AuthError" /\ Truthy(refreshTokenOf(as))

\* makeAuthenticatedRequest(): lines 247-254 and 268 after the first request returned
\* or threw: the value returned, the refresh POST issued (refresh(), lines 147-161),
\* or the error thrown on.
mar_first(t) ==
    /\ task[t].op = "mar" /\ task[t].pc = "returned" /\ task[t].phase = "first"
    /\ task' = [task EXCEPT ![t] =
          IF task[t].reqResult.kind = "ok"
          THEN Finish(task[t], task[t].reqResult)
          ELSE IF entersRefresh(task[t].reqResult, authState)
          THEN issueRequest([task[t] EXCEPT !.phase = "refresh",
                                            !.firstErr = task[t].reqResult,
                                            !.firstSent = task[t].sent,
                                            !.heldRefresh = TRUE,
                                            !.refreshCalls = @ + 1,
                                            !.headers = anonHeaders(anonKey)])
          ELSE Finish([task[t] EXCEPT !.firstErr = task[t].reqResult,
                                      !.firstSent = task[t].sent,
                                      !.heldRefresh = Truthy(refreshTokenOf(authState))],
                      task[t].reqResult)]
    /\ UNCHANGED <<constructed, isServer, throwing, store, authState, twinAuth, ops, callers, faults, anonKey, rtVars, dbVars, cfgVars>>

\* line 265 throwing the error of the inner catch, that of the refresh or the retry
rethrown_innerError(tk) == tk.reqResult

\* line 265: the error thrown when the refresh or the retry failed
rethrown(tk) == tk.firstErr

\* makeAuthenticatedRequest(): the refresh POST returned or threw. Returned:
\* refresh() lines 163-168, then lines 255-262 up to the await of the retry.
\* Threw: lines 263-265.
mar_refreshed(t) ==
    /\ task[t].op = "mar" /\ task[t].pc = "returned" /\ task[t].phase = "refresh"
    /\ IF task[t].reqResult.kind = "ok"
       THEN /\ authState' = refreshedState(authState, task[t].reqResult.data)
            /\ twinAuth' = refreshedState(twinAuth, task[t].reqResult.data)
            /\ store' = refreshedStore(authState, store, task[t].reqResult.data)
            /\ task' = [task EXCEPT ![t] =
                  issueRequest([task[t] EXCEPT
                      !.phase = "retry", !.requests = @ + 1,
                      !.headers = spread(task[t].configHeaders,
                                         getAuthHeaders(refreshedState(authState,
                                                            task[t].reqResult.data),
                                                        anonKey))])]
       ELSE /\ authState' = clearAuthState(store).auth
            /\ twinAuth' = clearAuthState(store).auth
            /\ store' = clearAuthState(store).store
            /\ task' = [task EXCEPT ![t] = Finish(task[t], rethrown(task[t]))]
    /\ UNCHANGED <<constructed, isServer, throwing, ops, callers, faults, anonKey, rtVars, dbVars, cfgVars>>

\* lines 259-265 with a retry that failed tried again
mar_retried_again(t) ==
    /\ task[t].op = "mar" /\ task[t].pc = "returned" /\ task[t].phase = "retry"
    /\ task' = [task EXCEPT ![t] =
          IF task[t].reqResult.kind = "ok"
          THEN Finish(task[t], task[t].reqResult)
          ELSE issueRequest([task[t] EXCEPT !.requests = @ + 1])]
    /\ UNCHANGED <<constructed, isServer, throwing, store, authState, twinAuth, ops, callers, faults, anonKey,
                   rtVars, dbVars, cfgVars>>

\* makeAuthenticatedRequest(): lines 259-265 after the retry returned or threw
mar_retried(t) ==
    /\ task[t].op = "mar" /\ task[t].pc = "returned" /\ task[t].phase = "retry"
    /\ IF task[t].reqResult.kind = "ok"
       THEN /\ task' = [task EXCEPT ![t] = Finish(task[t], task[t].reqResult)]
            /\ UNCHANGED <<authState, twinAuth, store>>
       ELSE /\ authState' = clearAuthState(store).auth
            /\ twinAuth' = clearAuthState(store).auth
            /\ store' = clearAuthState(store).store
            /\ task' = [task EXCEPT ![t] = Finish(task[t], rethrown(task[t]))]
    /\ UNCHANGED <<constructed, isServer, throwing, ops, callers, faults, anonKey, rtVars, dbVars, cfgVars>>

----------------------------------------------------------------------------
(* The environment of utils: localStorage *)

\* localStorage starts or stops throwing: from now on the methods in m throw
StorageChanges(m) ==
    /\ m # throwing
    /\ throwing' = m
    /\ UNCHANGED <<constructed, isServer, store, authState, twinAuth, task, ops, callers, faults,
                   anonKey, rtVars, dbVars, cfgVars>>

----------------------------------------------------------------------------
(* The callers *)

\* the caller of task t takes the result of its call
Return(t) ==
    /\ task[t].pc = "done"
    /\ task' = [task EXCEPT ![t] = IdleTask]
    /\ UNCHANGED <<constructed, isServer, throwing, store, authState, twinAuth, ops, callers, faults, anonKey, rtVars, dbVars, cfgVars>>

----------------------------------------------------------------------------
(* RealtimeClient: the socket, the timers and the connection state *)

NoSocket == 0
NoTimer == 0

\* the sockets created so far
SocketIds == 1..Len(sockets)

\* readyState of a socket: CONNECTING, OPEN, CLOSING (close() was called, its close
\* event is to come), ERRORED (closed, its error event delivered and its close event
\* to come) and CLOSED (its close event delivered: no event follows)
Live(s) == sockets[s] \in {"CONNECTING", "OPEN"}

IdleConnection == [connected |-> FALSE, connecting |-> FALSE, reconnecting |-> FALSE]

\* stopHeartbeat: lines 136-141, the pair (heartbeatInterval, intervals) after it
stopHeartbeat(hb, live) ==
    IF hb # NoTimer THEN [hb |-> NoTimer, live |-> live \ {hb}] ELSE [hb |-> hb, live |-> live]

\* line 116 with <= for <: one reconnect too many
shouldReconnect_offByOne(cfg, count) == cfg.autoReconnect /\ count <= cfg.maxRetries

\* line 116: a close schedules a reconnect
shouldReconnect(cfg, count) == cfg.autoReconnect /\ count < cfg.maxRetries

\* config.retryDelay || 1000: line 36
retryDelay == 1000

\* line 120 with the exponent the count itself: every delay doubled
reconnectDelay_countAsExponent(cfg, count) == cfg.retryDelay * 2^count

\* line 120: the delay of the reconnect timer, from the count as incremented
reconnectDelay(cfg, count) == cfg.retryDelay * 2^(count - 1)

\* a frame as sent: JSON.stringify of the message object, lines 56-59, 131, 160-165
\* and 179-183 (options.filter is not modelled)
Wire(type, channel, event, token) ==
    [type |-> type, channel |-> channel, event |-> event, token |-> token]

\* no subscription id: an id is a tuple, see subscriptionId
NoId == <<>>

\* what a handler did, when it did nothing of the kind: no frame sent on any socket,
\* no connect() promise resolved, no reconnect timer asked for, and the handler was
\* not unsubscribe(id)
NoEffects ==
    [sent |-> <<>>, on |-> NoSocket, resolved |-> FALSE, delay |-> 0, unsubscribe |-> NoId]

\* lines 159 and 178 with the null check alone
IsOpen_notNull(w) == w # NoSocket

\* this.ws?.readyState === WebSocket.OPEN: lines 130, 159 and 178
IsOpen(w) == w # NoSocket /\ sockets[w] = "OPEN"

\* String.replace('Bearer ', ''): line 54, on the header values getAuthHeaders makes
replaceBearer(h) ==
    CASE h = "Bearer a1" -> "a1"
      [] h = "Bearer a2" -> "a2"
      [] OTHER -> h

\* lines 53-54: the credential of the authenticate frame
authToken(as, key) ==
    LET headers == getAuthHeaders(as, key)
    IN  IF headers.Authorization # NULL /\ replaceBearer(headers.Authorization) # ""
        THEN replaceBearer(headers.Authorization)
        ELSE IF Truthy(headers.apikey) THEN headers.apikey
        ELSE ""

\* line 41 with reconnecting as a third reason to return: the connect() of a
\* reconnect timer creates no socket
connect_unlessReconnecting ==
    IF connectionState.connected \/ connectionState.connecting
       \/ connectionState.reconnecting
    THEN /\ effects' = [NoEffects EXCEPT !.resolved = TRUE]
         /\ UNCHANGED <<ws, sockets, connectionState, handshake>>
    ELSE IF rtConfig.ctorThrows
    THEN /\ connectionState' = [connectionState EXCEPT !.connecting = FALSE]
         /\ effects' = NoEffects
         /\ UNCHANGED <<ws, sockets, handshake>>
    ELSE /\ connectionState' = [connectionState EXCEPT !.connecting = TRUE]
         /\ sockets' = Append(sockets, "CONNECTING")
         /\ handshake' = Append(handshake, NULL)
         /\ ws' = Len(sockets) + 1
         /\ effects' = NoEffects

\* connect(): lines 40-90, by the caller or by a reconnect timer. The socket is
\* created unless the state is connected or connecting; a constructor that throws
\* leaves connecting false (lines 85-87).
connect ==
    IF connectionState.connected \/ connectionState.connecting
    THEN /\ effects' = [NoEffects EXCEPT !.resolved = TRUE]
         /\ UNCHANGED <<ws, sockets, connectionState, handshake>>
    ELSE IF rtConfig.ctorThrows
    THEN /\ connectionState' = [connectionState EXCEPT !.connecting = FALSE]
         /\ effects' = NoEffects
         /\ UNCHANGED <<ws, sockets, handshake>>
    ELSE /\ connectionState' = [connectionState EXCEPT !.connecting = TRUE]
         /\ sockets' = Append(sockets, "CONNECTING")
         /\ handshake' = Append(handshake, NULL)
         /\ ws' = Len(sockets) + 1
         /\ effects' = NoEffects

\* the caller calls connect()
Connect ==
    /\ Len(sockets) < MaxSockets
    /\ connect
    /\ wantOff' = FALSE
    /\ UNCHANGED <<rtConfig, reconnectTimeout, timers, timersMade, heartbeatInterval,
                   intervals, intervalsMade, retryCount, subVars, authVars, dbVars, cfgVars>>

\* a reconnect timer fires: line 123
TimerFires(tm) ==
    /\ tm \in timers
    /\ Len(sockets) < MaxSockets
    /\ timers' = timers \ {tm}
    /\ connect
    /\ UNCHANGED <<rtConfig, reconnectTimeout, timersMade, heartbeatInterval,
                   intervals, intervalsMade, retryCount, wantOff, subVars, authVars, dbVars, cfgVars>>

\* lines 63-67 with connecting left as it was while the socket was opening
OpenConnection_stillConnecting ==
    [connected |-> TRUE, connecting |-> TRUE, reconnecting |-> FALSE]

\* lines 63-67: the connection state the onopen handler sets
OpenConnection == [connected |-> TRUE, connecting |-> FALSE, reconnecting |-> FALSE]

\* the open event of socket s: the onopen handler, lines 51-71. this.ws!.send throws
\* when this.ws is null or is a socket still CONNECTING, and the handler ends there;
\* it transmits when this.ws is open, and does nothing when this.ws is closing or
\* closed. resolve() is the last statement.
SocketOpens(s) ==
    /\ sockets[s] = "CONNECTING"
    /\ sockets' = [sockets EXCEPT ![s] = "OPEN"]
    /\ IF ws = NoSocket \/ (ws # s /\ sockets[ws] = "CONNECTING")
       THEN /\ effects' = NoEffects
            /\ UNCHANGED <<connectionState, retryCount, heartbeatInterval, intervals,
                           intervalsMade, handshake>>
       ELSE /\ IF sockets'[ws] = "OPEN"
               THEN /\ effects' = [NoEffects EXCEPT
                                      !.sent = <<Wire("authenticate", NULL, NULL,
                                                      authToken(authState, anonKey))>>,
                                      !.on = ws, !.resolved = TRUE]
                    /\ handshake' = [handshake EXCEPT ![ws] = authToken(authState, anonKey)]
               ELSE /\ effects' = [NoEffects EXCEPT !.resolved = TRUE]
                    /\ UNCHANGED handshake
            /\ connectionState' = OpenConnection
            /\ retryCount' = 0
            /\ intervalsMade' = intervalsMade + 1
            /\ heartbeatInterval' = intervalsMade + 1
            /\ intervals' = intervals \cup {intervalsMade + 1}
    /\ UNCHANGED <<rtConfig, ws, reconnectTimeout, timers, timersMade, wantOff, subVars, authVars, dbVars, cfgVars>>

\* the error event of socket s: the onerror handler, lines 81-84. The connection of
\* s has failed: its close event follows.
SocketErrors(s) ==
    /\ sockets[s] \in {"CONNECTING", "OPEN", "CLOSING"}
    /\ sockets' = [sockets EXCEPT ![s] = "ERRORED"]
    /\ connectionState' = [connectionState EXCEPT !.connecting = FALSE]
    /\ effects' = NoEffects
    /\ UNCHANGED <<rtConfig, ws, reconnectTimeout, timers, timersMade, heartbeatInterval,
                   intervals, intervalsMade, retryCount, wantOff, handshake, subVars,
                   authVars, dbVars, cfgVars>>

\* the close event of socket s: the onclose handler, line 78, runs
\* handleDisconnection, lines 112-126
SocketCloses(s) ==
    /\ sockets[s] \in {"OPEN", "CLOSING", "ERRORED"}
    /\ sockets' = [sockets EXCEPT ![s] = "CLOSED"]
    /\ heartbeatInterval' = stopHeartbeat(heartbeatInterval, intervals).hb
    /\ intervals' = stopHeartbeat(heartbeatInterval, intervals).live
    /\ IF shouldReconnect(rtConfig, retryCount)
       THEN /\ connectionState' = [connectionState EXCEPT !.connected = FALSE,
                                                           !.reconnecting = TRUE]
            /\ retryCount' = retryCount + 1
            /\ timersMade' = timersMade + 1
            /\ reconnectTimeout' = timersMade + 1
            /\ timers' = timers \cup {timersMade + 1}
            /\ effects' = [NoEffects EXCEPT
                              !.delay = reconnectDelay(rtConfig, retryCount + 1)]
       ELSE /\ connectionState' = [connectionState EXCEPT !.connected = FALSE]
            /\ effects' = NoEffects
            /\ UNCHANGED <<retryCount, timersMade, reconnectTimeout, timers>>
    /\ UNCHANGED <<rtConfig, ws, intervalsMade, wantOff, handshake, subVars, authVars, dbVars, cfgVars>>

----------------------------------------------------------------------------
(* RealtimeClient: the subscription registry and the inbound frames *)

Channels == {"c1", "c2"}
Events == {"e1", "e2"}

\* options.event of a subscribe() call: unset, or an event
EventFilters == {NULL, "e1"}

\* event.data of an inbound frame: text that JSON.parse rejects, or a message
NoFrame == [parses |-> FALSE, type |-> "", channel |-> "", event |-> "", payload |-> ""]
Frames ==
    {NoFrame}
    \cup [parses : {TRUE}, type : {"pong"}, channel : {"c1"}, event : {"e1"}, payload : {"p1"}]
    \cup [parses : {TRUE}, type : {"message"}, channel : Channels, event : Events,
          payload : {"p1"}]

NoDispatch == [frame |-> NoFrame, invoked |-> <<>>, seen |-> FALSE]

\* line 148: the id of a subscription
subscriptionId(channel, event, time) ==
    <<channel, IF Truthy(event) THEN event ELSE "all", time>>

\* this.subscriptions.has(id)
MapHas(m, id) == \E i \in 1..Len(m) : m[i].id = id

\* this.subscriptions.get(id), of an id the Map has
MapGet(m, id) == m[CHOOSE i \in 1..Len(m) : m[i].id = id]

\* this.subscriptions.set(id, sub): a new entry goes last, an entry with this id is
\* replaced where it is
MapSet(m, sub) ==
    IF MapHas(m, sub.id)
    THEN [m EXCEPT ![CHOOSE i \in 1..Len(m) : m[i].id = sub.id] = sub]
    ELSE Append(m, sub)

\* line 176 deleting every entry of the channel the id names
MapDelete_wholeChannel(m, id) == SelectSeq(m, LAMBDA x : x.channel # id[1])

\* line 176 deleting nothing
MapDelete_nothing(m, id) == m

\* this.subscriptions.delete(id)
MapDelete(m, id) == SelectSeq(m, LAMBDA x : x.id # id)

\* lines 101-102: the subscription is one the message is for
matches(sub, msg) ==
    sub.channel = msg.channel /\ (~Truthy(sub.event) \/ sub.event = msg.event)

\* lines 100-106: the calls subscriptions.forEach makes from entry i on. A callback
\* that throws ends the forEach: the exception leaves it for the catch of line 107.
RECURSIVE forEach(_, _, _)
forEach(subs, i, msg) ==
    IF i > Len(subs) THEN <<>>
    ELSE IF matches(subs[i], msg)
    THEN IF subs[i].throws
         THEN <<[cb |-> subs[i].cb, arg |-> msg.payload]>>
         ELSE <<[cb |-> subs[i].cb, arg |-> msg.payload]>> \o forEach(subs, i + 1, msg)
    ELSE forEach(subs, i + 1, msg)

\* handleMessage: lines 92-110, the callbacks it calls and their arguments
handleMessage(subs, frame) ==
    IF ~frame.parses THEN <<>>
    ELSE IF frame.type = "pong" THEN <<>>
    ELSE forEach(subs, 1, frame)

\* the caller calls subscribe(channel, callback, {event}): lines 143-170. The
\* callback is a new one, that throws or does not.
Subscribe(channel, event, throws) ==
    /\ subsMade < MaxSubs
    /\ subsMade' = subsMade + 1
    /\ subscriptions' = MapSet(subscriptions,
                               [id |-> subscriptionId(channel, event, now),
                                channel |-> channel, event |-> event,
                                cb |-> subsMade + 1, throws |-> throws])
    /\ dispatched' = NoDispatch
    /\ handles' = Append(handles, [id |-> subscriptionId(channel, event, now),
                                   channel |-> channel, off |-> FALSE])
    /\ effects' = IF IsOpen(ws)
                  THEN [NoEffects EXCEPT
                          !.sent = <<Wire("subscribe", channel, event, NULL)>>, !.on = ws]
                  ELSE NoEffects
    /\ UNCHANGED <<rtConfig, ws, sockets, connectionState, reconnectTimeout, timers,
                   timersMade, heartbeatInterval, intervals, intervalsMade, retryCount,
                   wantOff, handshake, now, authVars, dbVars, cfgVars>>

\* the caller calls unsubscribe(id), or subscription.unsubscribe(): lines 172-185
Unsubscribe(id) ==
    /\ IF MapHas(subscriptions, id)
       THEN /\ subscriptions' = MapDelete(subscriptions, id)
            /\ dispatched' = NoDispatch
            /\ effects' = IF IsOpen(ws)
                          THEN [NoEffects EXCEPT !.unsubscribe = id,
                                  !.sent = <<Wire("unsubscribe", MapGet(subscriptions, id).channel,
                                                  MapGet(subscriptions, id).event, NULL)>>,
                                  !.on = ws]
                          ELSE [NoEffects EXCEPT !.unsubscribe = id]
       ELSE /\ effects' = [NoEffects EXCEPT !.unsubscribe = id]
            /\ UNCHANGED <<subscriptions, dispatched>>
    /\ handles' = [k \in DOMAIN handles |->
                      IF handles[k].id = id THEN [handles[k] EXCEPT !.off = TRUE]
                                            ELSE handles[k]]
    /\ UNCHANGED <<rtConfig, ws, sockets, connectionState, reconnectTimeout, timers,
                   timersMade, heartbeatInterval, intervals, intervalsMade, retryCount,
                   wantOff, handshake, now, subsMade, authVars, dbVars, cfgVars>>

\* a millisecond passes
Tick ==
    /\ now < MaxClock
    /\ now' = now + 1
    /\ effects' = NoEffects
    /\ UNCHANGED <<rtConfig, ws, sockets, connectionState, reconnectTimeout, timers,
                   timersMade, heartbeatInterval, intervals, intervalsMade, retryCount,
                   wantOff, handshake, subscriptions, subsMade, dispatched, handles,
                   authVars, dbVars, cfgVars>>

\* the message event of socket s: the onmessage handler, line 74, runs handleMessage
SocketMessage(s, frame) ==
    /\ sockets[s] = "OPEN"
    /\ dispatched' = [frame |-> frame, invoked |-> handleMessage(subscriptions, frame),
                      seen |-> TRUE]
    /\ effects' = NoEffects
    /\ UNCHANGED <<rtConfig, ws, sockets, connectionState, reconnectTimeout, timers,
                   timersMade, heartbeatInterval, intervals, intervalsMade, retryCount,
                   wantOff, handshake, subscriptions, now, subsMade, handles, authVars, dbVars, cfgVars>>

\* a heartbeat interval that is live fires: the callback of lines 129-133
HeartbeatFires(iv) ==
    /\ iv \in intervals
    /\ effects' = IF IsOpen(ws)
                  THEN [NoEffects EXCEPT
                          !.sent = <<Wire("ping", NULL, NULL, NULL)>>, !.on = ws]
                  ELSE NoEffects
    /\ UNCHANGED <<rtConfig, ws, sockets, connectionState, reconnectTimeout, timers,
                   timersMade, heartbeatInterval, intervals, intervalsMade, retryCount,
                   wantOff, handshake, subVars, authVars, dbVars, cfgVars>>

----------------------------------------------------------------------------
(* RealtimeClient.disconnect *)

\* the caller calls disconnect(): lines 187-206
Disconnect ==
    /\ timers' = IF reconnectTimeout # NoTimer THEN timers \ {reconnectTimeout} ELSE timers
    /\ reconnectTimeout' = NoTimer
    /\ heartbeatInterval' = stopHeartbeat(heartbeatInterval, intervals).hb
    /\ intervals' = stopHeartbeat(heartbeatInterval, intervals).live
    /\ sockets' = IF ws # NoSocket /\ Live(ws)
                  THEN [sockets EXCEPT ![ws] = "CLOSING"] ELSE sockets
    /\ ws' = NoSocket
    /\ connectionState' = IdleConnection
    /\ wantOff' = TRUE
    /\ subscriptions' = <<>>
    /\ dispatched' = NoDispatch
    /\ effects' = NoEffects
    /\ UNCHANGED <<rtConfig, timersMade, intervalsMade, retryCount, handshake, now, subsMade,
                   handles, authVars, dbVars, cfgVars>>

----------------------------------------------------------------------------
(* The specification of the Auth Manager over its Transport *)

\* localStorage as the constructor may find it; there is none on a server
InitAuth ==
    /\ constructed = FALSE
    /\ isServer \in BOOLEAN
    /\ store \in [Keys -> {NULL} \cup AccessTokens \cup RefreshTokens \cup UserEntries]
    /\ store["access_token"] \in {NULL, "a1"}
    /\ store["refresh_token"] \in {NULL, "r1"}
    /\ store["selfdb_user"] \in UserEntries
    /\ isServer => \A k \in Keys : store[k] = NULL
    /\ authState = EmptyAuthState
    /\ twinAuth = EmptyAuthState
    /\ task = [t \in Tasks |-> IdleTask]
    /\ ops = 0
    /\ anonKey \in AnonKeys

----------------------------------------------------------------------------
(* Config (config.ts): the singleton. Its callers reach the Config object through
   Config.getInstance(), so that an object init() has replaced is used no more. *)

\* timeout: config.timeout || 10000
defaultTimeout == 10000

ScalarFields == {"baseUrl", "storageUrl", "anonKey", "timeout"}
ConfigFields == ScalarFields \cup {"headers"}

BaseUrls == {"http://h:8000", "http://h"}
StorageUrls == {"", "http://s"}
ConfigKeys == {"anon", "key2"}
Timeouts == {0, 5000}

\* headers as a caller passes them to init() and updateConfig()
ConfigHeaders ==
    {NoHeaders,
     [NoHeaders EXCEPT !["Accept"] = "json"],
     [NoHeaders EXCEPT !["Accept"] = "xml", !["apikey"] = "caller-key"]}

\* an object literal with the properties named in present
Literal(present, baseUrl, storageUrl, key, headers, timeout) ==
    [f \in present |->
        CASE f = "baseUrl" -> baseUrl
          [] f = "storageUrl" -> storageUrl
          [] f = "anonKey" -> key
          [] f = "headers" -> headers
          [] f = "timeout" -> timeout]

\* baseUrl.replace(':8000', ':8001')
replacePort(url) == IF url = "http://h:8000" THEN "http://h:8001" ELSE url

\* the constructor: lines 13-21
newConfig(config) ==
    [baseUrl |-> config.baseUrl,
     storageUrl |-> IF "storageUrl" \in DOMAIN config /\ config.storageUrl # ""
                    THEN config.storageUrl ELSE replacePort(config.baseUrl),
     anonKey |-> config.anonKey,
     headers |-> IF "headers" \in DOMAIN config THEN config.headers ELSE NoHeaders,
     timeout |-> IF "timeout" \in DOMAIN config /\ config.timeout # 0
                 THEN config.timeout ELSE defaultTimeout]

\* updateConfig that takes the headers of the update as they are
updateConfig_replacesHeaders(config, updates) ==
    [f \in ConfigFields |-> IF f \in DOMAIN updates THEN updates[f] ELSE config[f]]

\* updateConfig: lines 55-64, the value of this.config after it
updateConfig(config, updates) ==
    [f \in ConfigFields |->
        IF f = "headers"
        THEN spread(config.headers,
                    IF "headers" \in DOMAIN updates THEN updates.headers ELSE NoHeaders)
        ELSE IF f \in DOMAIN updates THEN updates[f] ELSE config[f]]

\* Config.instance is undefined
NoInstance == 0

\* init that keeps the instance there is
init_keepsInstance(current, fresh) == IF current # NoInstance THEN current ELSE fresh

\* init, line 24: Config.instance after it, fresh being the object new Config() made
init(current, fresh) == fresh

\* no call of Config was made
NoConfigCall == [op |-> "none", threw |-> FALSE, returned |-> NoInstance, on |-> NoInstance,
                 updates |-> <<>>]

\* the private config before any Config object is there
NoConfig == newConfig([baseUrl |-> "", anonKey |-> ""])

\* Config.init(config): lines 23-26
ConfigInit(cfg) ==
    /\ made < MaxInits
    /\ made' = made + 1
    /\ instance' = init(instance, made')
    /\ instanceConfig' = IF instance' = made' THEN newConfig(cfg) ELSE instanceConfig
    /\ cfgCall' = [NoConfigCall EXCEPT !.op = "init", !.returned = instance']
    /\ UNCHANGED <<authVars, rtVars, dbVars>>

\* Config.getInstance(): lines 28-33
ConfigGetInstance ==
    /\ cfgCall' = IF instance = NoInstance
                  THEN [NoConfigCall EXCEPT !.op = "getInstance", !.threw = TRUE]
                  ELSE [NoConfigCall EXCEPT !.op = "getInstance", !.returned = instance]
    /\ UNCHANGED <<instance, made, instanceConfig, authVars, rtVars, dbVars>>

\* Config.getInstance().updateConfig(updates): lines 55-64
ConfigUpdateConfig(updates) ==
    /\ instance # NoInstance
    /\ instanceConfig' = updateConfig(instanceConfig, updates)
    /\ cfgCall' = [NoConfigCall EXCEPT !.op = "updateConfig", !.on = instance,
                                       !.updates = updates]
    /\ UNCHANGED <<instance, made, authVars, rtVars, dbVars>>

\* before any init()
InitConfig ==
    /\ instance = NoInstance
    /\ made = 0
    /\ instanceConfig = NoConfig
    /\ cfgCall = NoConfigCall

----------------------------------------------------------------------------
(* The database client: QueryBuilder and DatabaseClient, update and delete. The
   repository holds two db/client.ts: that of release 1.1.0, which updates and
   deletes rows through the tables endpoints by id, and the one under src/, which
   sends SQL *)

Versions == {"1.1", "src"}
Columns == {"id", "name"}
Operators == {"=", ">"}
WhereValues == {"", "v"}

\* where(): line 46, the key of a condition with an operator other than = or eq
operatorKey(column, operator) == column \o "_" \o operator

\* the keys whereConditions may have
WhereKeys == Columns \cup {operatorKey(c, ">") : c \in Columns}

\* whereConditions = {}: line 19
NoWhere == [k \in WhereKeys |-> NULL]

\* the where arguments a caller passes to DatabaseClient.update and delete
WhereSets == [WhereKeys -> {NULL} \cup WhereValues]

\* where(column, operator, value): lines 34-49. value NULL is the call with two
\* arguments, whose second is the value.
where(conds, column, operator, value) ==
    IF value = NULL
    THEN [conds EXCEPT ![column] = operator]
    ELSE IF operator = "=" \/ operator = "eq"
    THEN [conds EXCEPT ![column] = value]
    ELSE [conds EXCEPT ![operatorKey(column, operator)] = value]

\* Object.keys(conds).length === 0
noKeys(conds) == \A k \in WhereKeys : conds[k] = NULL

\* a request handed to makeAuthenticatedRequest
Request(method, endpoint, id) == [method |-> method, endpoint |-> endpoint, id |-> id]

\* a call that threw a SelfDBError with this code before any request
Thrown(code) == [error |-> code, requests |-> <<>>]

\* a call that issued this request
Issued(request) == [error |-> NULL, requests |-> <<request>>]

\* QueryBuilder.update of release 1.1.0: lines 85-123, up to the request
QueryBuilder_update(conds) ==
    IF noKeys(conds) THEN Thrown("UPDATE_NO_WHERE")
    ELSE IF ~Truthy(conds["id"]) THEN Thrown("UPDATE_UNSUPPORTED_WHERE")
    ELSE Issued(Request("PUT", "tables", conds["id"]))

\* QueryBuilder.delete of release 1.1.0: lines 125-162, up to the request
QueryBuilder_delete(conds) ==
    IF noKeys(conds) THEN Thrown("DELETE_NO_WHERE")
    ELSE IF ~Truthy(conds["id"]) THEN Thrown("DELETE_UNSUPPORTED_WHERE")
    ELSE Issued(Request("DELETE", "tables", conds["id"]))

\* DatabaseClient.update of release 1.1.0: lines 321-344
DatabaseClient_update(conds) ==
    IF ~Truthy(conds["id"]) THEN Thrown("UPDATE_UNSUPPORTED_WHERE")
    ELSE Issued(Request("PUT", "tables", conds["id"]))

\* DatabaseClient.delete of release 1.1.0: lines 346-366
DatabaseClient_delete(conds) ==
    IF ~Truthy(conds["id"]) THEN Thrown("DELETE_UNSUPPORTED_WHERE")
    ELSE Issued(Request("DELETE", "tables", conds["id"]))

\* QueryBuilder.update under src/: lines 85-118, up to the request. The SQL text,
\* with the WHERE clause buildWhereClause makes of the conditions, is not modelled.
QueryBuilder_update_src(conds) ==
    IF noKeys(conds) THEN Thrown("UPDATE_NO_WHERE")
    ELSE Issued(Request("POST", "sql", NULL))

\* QueryBuilder.delete under src/: lines 120-141, up to the request
QueryBuilder_delete_src(conds) ==
    IF noKeys(conds) THEN Thrown("DELETE_NO_WHERE")
    ELSE Issued(Request("POST", "sql", NULL))

\* DatabaseClient.update under src/: lines 330-350
DatabaseClient_update_src(conds) == Issued(Request("POST", "sql", NULL))

\* DatabaseClient.delete under src/: lines 352-356
DatabaseClient_delete_src(conds) == Issued(Request("POST", "sql", NULL))

\* no update or delete was called
NoCall == [api |-> "none", op |-> "none", where |-> NoWhere, error |-> NULL,
           requests |-> <<>>]

\* the call, with what it did
Called(api, op, conds, did) ==
    [api |-> api, op |-> op, where |-> conds, error |-> did.error,
     requests |-> did.requests]

\* the caller calls where() on the builder, with two arguments or with three
Where(column, operator, value) ==
    /\ whereConditions' = where(whereConditions, column, operator, value)
    /\ dbCall' = NoCall
    /\ UNCHANGED <<dbVersion, authVars, rtVars, cfgVars>>

\* the caller calls update() on the builder
QueryBuilderUpdate ==
    /\ dbCall' = Called("QueryBuilder", "update", whereConditions,
                        IF dbVersion = "1.1" THEN QueryBuilder_update(whereConditions)
                        ELSE QueryBuilder_update_src(whereConditions))
    /\ UNCHANGED <<dbVersion, whereConditions, authVars, rtVars, cfgVars>>

\* the caller calls delete() on the builder
QueryBuilderDelete ==
    /\ dbCall' = Called("QueryBuilder", "delete", whereConditions,
                        IF dbVersion = "1.1" THEN QueryBuilder_delete(whereConditions)
                        ELSE QueryBuilder_delete_src(whereConditions))
    /\ UNCHANGED <<dbVersion, whereConditions, authVars, rtVars, cfgVars>>

\* the caller calls DatabaseClient.update(table, data, where)
DatabaseClientUpdate(conds) ==
    /\ dbCall' = Called("DatabaseClient", "update", conds,
                        IF dbVersion = "1.1" THEN DatabaseClient_update(conds)
                        ELSE DatabaseClient_update_src(conds))
    /\ UNCHANGED <<dbVersion, whereConditions, authVars, rtVars, cfgVars>>

\* the caller calls DatabaseClient.delete(table, where)
DatabaseClientDelete(conds) ==
    /\ dbCall' = Called("DatabaseClient", "delete", conds,
                        IF dbVersion = "1.1" THEN DatabaseClient_delete(conds)
                        ELSE DatabaseClient_delete_src(conds))
    /\ UNCHANGED <<dbVersion, whereConditions, authVars, rtVars, cfgVars>>

\* a builder as from() makes it, of either db/client.ts
InitDb ==
    /\ dbVersion \in Versions
    /\ whereConditions = NoWhere
    /\ dbCall = NoCall

\* the database client of release 1.1.0, never used
InitDbIdle == InitDb /\ dbVersion = "1.1"

----------------------------------------------------------------------------

\* the realtime client as constructed: lines 15-38
InitRealtime ==
    /\ rtConfig \in [autoReconnect : BOOLEAN, maxRetries : {CfgMaxRetries},
                     retryDelay : {retryDelay}, ctorThrows : BOOLEAN]
    /\ ws = NoSocket
    /\ sockets = <<>>
    /\ connectionState = IdleConnection
    /\ reconnectTimeout = NoTimer
    /\ timers = {}
    /\ timersMade = 0
    /\ heartbeatInterval = NoTimer
    /\ intervals = {}
    /\ intervalsMade = 0
    /\ retryCount = 0
    /\ wantOff = FALSE
    /\ subscriptions = <<>>
    /\ now = 0
    /\ subsMade = 0
    /\ dispatched = NoDispatch
    /\ handshake = <<>>
    /\ effects = NoEffects
    /\ handles = <<>>

\* the realtime client as constructed, with auto-reconnect, and never used
InitRealtimeIdle ==
    /\ InitRealtime
    /\ rtConfig = [autoReconnect |-> TRUE, maxRetries |-> CfgMaxRetries,
                   retryDelay |-> retryDelay, ctorThrows |-> FALSE]

\* the Auth Manager of a server process, constructed and never used
InitAuthIdle ==
    /\ constructed = TRUE
    /\ isServer = TRUE
    /\ store = [k \in Keys |-> NULL]
    /\ throwing = {}
    /\ authState = EmptyAuthState
    /\ twinAuth = EmptyAuthState
    /\ task = [t \in Tasks |-> IdleTask]
    /\ ops = 0
    /\ callers = {}
    /\ faults = FALSE
    /\ anonKey = "anon"

\* an Auth Manager at rest, signed in or not, with an anonymous key or none
InitAuthSettled ==
    /\ constructed = TRUE
    /\ isServer = TRUE
    /\ store = [k \in Keys |-> NULL]
    /\ throwing = {}
    /\ authState \in {EmptyAuthState,
                      loginState([access |-> "a1", refresh |-> "r1",
                                  user |-> "u1"])}
    /\ twinAuth = authState
    /\ task = [t \in Tasks |-> IdleTask]
    /\ ops = 0
    /\ callers = {}
    /\ faults = FALSE
    /\ anonKey \in AnonKeys

\* one caller, whose calls follow one another, over a network that may fail
Init == InitAuth /\ throwing = {} /\ callers = {"t1"} /\ faults = TRUE /\ InitRealtimeIdle /\ InitDbIdle /\ InitConfig

\* two callers, whose calls overlap, over a network that answers every request
InitConc ==
    /\ InitAuth /\ throwing = {} /\ callers = Tasks /\ faults = FALSE /\ anonKey = "anon"
    /\ InitRealtimeIdle /\ InitDbIdle /\ InitConfig

Next ==
    \/ Construct
    \/ \E t \in Tasks : Request_Attempt(t)
    \/ \E t \in Tasks : login(t)
    \/ \E t \in Tasks : login_resume(t)
    \/ \E t \in Tasks : register(t)
    \/ \E t \in Tasks : register_resume(t)
    \/ \E t \in Tasks : refresh(t)
    \/ \E t \in Tasks : refresh_resume(t)
    \/ \E t \in Tasks : logout(t)
    \/ \E t \in Tasks : getUser(t)
    \/ \E t \in Tasks : getUser_resume(t)
    \/ \E t \in Tasks : makeAuthenticatedRequest(t)
    \/ \E t \in Tasks : mar_first(t)
    \/ \E t \in Tasks : mar_refreshed(t)
    \/ \E t \in Tasks : mar_retried(t)
    \/ \E t \in Tasks : Return(t)

Spec == Init /\ [][Next]_vars

SpecConc == InitConc /\ [][Next]_vars

----------------------------------------------------------------------------
(* The specification of the Auth Manager over a localStorage that may throw: one
   caller, over a network that answers every request *)

InitStore ==
    /\ InitAuth /\ throwing \in SUBSET StorageMethods /\ callers = {"t1"} /\ faults = FALSE
    /\ anonKey = "anon" /\ InitRealtimeIdle /\ InitDbIdle /\ InitConfig

NextStore ==
    \/ Next
    \/ \E m \in SUBSET StorageMethods : StorageChanges(m)

SpecStore == InitStore /\ [][NextStore]_vars

----------------------------------------------------------------------------
(* The specification of the Realtime Manager *)

InitRT == InitAuthIdle /\ InitRealtime /\ InitDbIdle /\ InitConfig

NextRT ==
    \/ Connect
    \/ Disconnect
    \/ \E tm \in timers : TimerFires(tm)
    \/ \E s \in SocketIds : SocketOpens(s)
    \/ \E s \in SocketIds : SocketErrors(s)
    \/ \E s \in SocketIds : SocketCloses(s)
    \/ \E iv \in intervals : HeartbeatFires(iv)

SpecRT == InitRT /\ [][NextRT]_vars

\* the Realtime Manager of an SDK that is signed in or not, with an anonymous key
\* or without
InitConn == InitAuthSettled /\ InitRealtime /\ InitDbIdle /\ InitConfig

SpecConn == InitConn /\ [][NextRT]_vars

----------------------------------------------------------------------------
(* The specification of the Realtime Manager with its subscribers: a manager
   without auto-reconnect over sockets that do not fail, the callers that
   subscribe and unsubscribe, and the frames the backend sends *)

InitSub ==
    /\ InitAuthIdle
    /\ InitRealtime
    /\ InitDbIdle /\ InitConfig
    /\ rtConfig = [autoReconnect |-> FALSE, maxRetries |-> CfgMaxRetries,
                   retryDelay |-> retryDelay, ctorThrows |-> FALSE]

NextSub ==
    \/ Connect
    \/ Disconnect
    \/ \E s \in SocketIds : SocketOpens(s)
    \/ \E c \in Channels, e \in EventFilters, th \in BOOLEAN : Subscribe(c, e, th)
    \/ \E i \in 1..Len(subscriptions) : Unsubscribe(subscriptions[i].id)
    \/ Tick
    \/ \E s \in SocketIds, f \in Frames : SocketMessage(s, f)

SpecSub == InitSub /\ [][NextSub]_vars

----------------------------------------------------------------------------
(* The specification of the registry across reconnects: a manager with
   auto-reconnect over sockets the backend closes, callers that subscribe and that
   unsubscribe with the ids of the Subscription objects they were given, registered
   still or not, and the frames the backend sends. The clock stands still: two
   subscriptions to the same channel and event have the same id. *)

InitReg == InitAuthIdle /\ InitRealtimeIdle /\ InitDbIdle /\ InitConfig

NextReg ==
    \/ Connect
    \/ \E tm \in timers : TimerFires(tm)
    \/ \E s \in SocketIds : SocketOpens(s)
    \/ \E s \in SocketIds : SocketCloses(s)
    \/ \E c \in Channels, e \in EventFilters : Subscribe(c, e, FALSE)
    \/ \E k \in 1..Len(handles) : Unsubscribe(handles[k].id)
    \/ \E s \in SocketIds, f \in Frames : SocketMessage(s, f)

SpecReg == InitReg /\ [][NextReg]_vars

----------------------------------------------------------------------------
(* The specification of the database client: callers that build conditions and
   update and delete, with either db/client.ts *)

InitDbClient == InitAuthIdle /\ InitRealtimeIdle /\ InitDb /\ InitConfig

NextDb ==
    \/ \E c \in Columns, v \in WhereValues : Where(c, v, NULL)
    \/ \E c \in Columns, o \in Operators, v \in WhereValues : Where(c, o, v)
    \/ QueryBuilderUpdate
    \/ QueryBuilderDelete
    \/ \E w \in WhereSets : DatabaseClientUpdate(w)
    \/ \E w \in WhereSets : DatabaseClientDelete(w)

SpecDb == InitDbClient /\ [][NextDb]_vars

----------------------------------------------------------------------------
(* Properties of the Auth Manager and its Transport *)

\* every persisted entry reads as absent
NothingPersisted == \A k \in Keys : getStorageItem(store, k) = NULL

\* the first axios call of the first request of the call got a 401 response
First401(tk) ==
    /\ tk.firstErr = [Err("ApiError", 401, 1) EXCEPT !.body = ErrorBody("H401")]
    /\ tk.firstSent = 1

\* C1: a makeAuthenticatedRequest whose first attempt got a 401 while a refresh
\* token was held, over a backend that answers every later request successfully,
\* has made exactly one refresh call, has issued the original request exactly
\* twice and returns the response of the retry.
C1_RefreshAndRetryOn401 ==
    \A t \in Tasks :
        (/\ task[t].op = "mar" /\ task[t].pc = "done"
         /\ First401(task[t]) /\ task[t].heldRefresh /\ task[t].calm)
        => (/\ task[t].refreshCalls = 1
            /\ task[t].requests = 2
            /\ task[t].result.kind = "ok"
            /\ task[t].result.req = 3)

\* C2: a makeAuthenticatedRequest whose request failed with a 401 while no refresh
\* token was held fails with that error, without a refresh and without a second
\* request, and leaves the auth state cleared: not authenticated, no user, no
\* tokens, no persisted entry.
C2_NoRefreshTokenClears ==
    \A t \in Tasks :
        (/\ task[t].op = "mar" /\ task[t].pc = "done"
         /\ task[t].firstErr.kind = "err" /\ task[t].firstErr.status = 401
         /\ ~task[t].heldRefresh)
        => (/\ task[t].result = task[t].firstErr
            /\ task[t].refreshCalls = 0
            /\ task[t].requests = 1
            /\ authState = EmptyAuthState
            /\ NothingPersisted)

\* C3: a makeAuthenticatedRequest that made its refresh call and fails (the refresh
\* failed, or the retry did) leaves the auth state cleared, in memory and
\* persisted, and throws the error of its first request, not that of the refresh
\* (request 2) or of the retry (request 3).
C3_FailedRetryClearsAndRethrowsFirst ==
    \A t \in Tasks :
        (/\ task[t].op = "mar" /\ task[t].pc = "done"
         /\ task[t].refreshCalls >= 1 /\ task[t].result.kind = "err")
        => (/\ task[t].result = task[t].firstErr
            /\ task[t].result.req = 1
            /\ authState = EmptyAuthState
            /\ NothingPersisted)

\* C3, its case: the refresh succeeded and the retry failed
C3_Witness ==
    /\ task["t1"].op = "mar" /\ task["t1"].pc = "done"
    /\ task["t1"].refreshCalls = 1 /\ task["t1"].requests = 2
    /\ task["t1"].result.kind = "err"

\* both tokens are present and a user is present
TokensAndUserPresent ==
    /\ authState.tokens # NoTokens
    /\ Truthy(refreshTokenOf(authState))
    /\ Truthy(IF authState.tokens = NoTokens THEN NULL ELSE authState.tokens.accessToken)
    /\ authState.user # NULL

\* C7: once constructed, the Auth Manager is authenticated if and only if both
\* tokens are present and a user is present.
C7_AuthenticatedIffTokensAndUser ==
    constructed => (authState.isAuthenticated <=> TokensAndUserPresent)

\* C8: the constructor restores the session if the three entries are present and
\* the user entry parses (authenticated, with the persisted user and tokens), and
\* otherwise leaves the state empty: not authenticated, no user, no tokens.
C8_RestoreAllOrNothing ==
    [][(~constructed /\ constructed') =>
        IF /\ Truthy(getStorageItem(store, "access_token"))
           /\ Truthy(getStorageItem(store, "refresh_token"))
           /\ Truthy(getStorageItem(store, "selfdb_user"))
           /\ JSONparse(getStorageItem(store, "selfdb_user")).ok
        THEN /\ authState'.isAuthenticated
             /\ authState'.user = JSONparse(getStorageItem(store, "selfdb_user")).value
             /\ authState'.tokens = [accessToken |-> getStorageItem(store, "access_token"),
                                     refreshToken |-> getStorageItem(store, "refresh_token")]
        ELSE authState' = EmptyAuthState]_vars

\* C8, its case: a session restored by the constructor
C8_Witness ==
    /\ constructed /\ ops = 0
    /\ authState.isAuthenticated /\ authState.user = "u1"
    /\ store["selfdb_user"] = "{u1}"

\* C9: logout, from any state, leaves the manager not authenticated, with no user,
\* no tokens and no persisted entry, and sends no request.
C9_LogoutClearsEverything ==
    [][\A t \in Tasks :
          (task[t].pc = "idle" /\ task'[t].op = "logout")
          => (/\ authState' = EmptyAuthState
              /\ \A k \in Keys : store'[k] = NULL
              /\ task'[t].sent = 0
              /\ task'[t].pc = "done"
              /\ \A u \in Tasks \ {t} :
                    [task'[u] EXCEPT !.stale = task[u].stale] = task[u])]_vars

\* C9, its case: a logout from an authenticated state while another call is in flight
C9_Witness ==
    /\ task["t1"].op = "logout" /\ task["t1"].pc = "done" /\ task["t1"].wasAuth
    /\ task["t2"].pc = "await"

\* a 4xx response
Is4xx(o) == Status(o) >= 400 /\ Status(o) < 500

\* C10: a Transport request whose first attempt got a 4xx response has ended, with
\* an Api error of that status, after that one attempt and without a delay.
C10_FailFastOn4xx ==
    \A t \in Tasks :
        (task[t].answers # <<>> /\ Is4xx(task[t].answers[1]))
        => (/\ task[t].pc = "returned"
            /\ task[t].reqResult.kind = "err" /\ task[t].reqResult.cls = "ApiError"
            /\ task[t].reqResult.status = Status(task[t].answers[1])
            /\ task[t].reqResult.req = task[t].issued
            /\ Len(task[t].answers) = 1
            /\ task[t].delays = <<>>)

\* C10, its case: a request ended by the 404 of its first attempt
C10_Witness ==
    /\ task["t1"].pc = "returned" /\ task["t1"].answers = <<"H404">>
    /\ task["t1"].reqResult.status = 404

\* a 5xx response, a timeout or no response
IsRetryable(o) == o \in {"H500", "TMO", "NET"}

\* C11: a Transport request all of whose attempts so far ended in a 5xx response,
\* a timeout or no response makes at most maxRetries attempts after the first and
\* ends, with an error, exactly when it has made them; before retry number k (from
\* 0) it has waited min(baseDelay * 2^k, maxDelay), so the delays never decrease
\* and never exceed maxDelay, and nothing is waited after the last attempt.
C11_RetriesWithCappedBackoff ==
    \A t \in Tasks :
        LET tk == task[t]
            n == Len(tk.answers)
        IN (n >= 1 /\ \A i \in 1..n : IsRetryable(tk.answers[i]))
           => /\ n <= maxRetries + 1
              /\ Len(tk.delays) = (IF n <= maxRetries THEN n ELSE maxRetries)
              /\ \A k \in 1..Len(tk.delays) :
                    tk.delays[k] = (IF baseDelay * (2 ^ (k - 1)) <= maxDelay
                                    THEN baseDelay * (2 ^ (k - 1)) ELSE maxDelay)
              /\ \A k \in 1..(Len(tk.delays) - 1) : tk.delays[k] <= tk.delays[k + 1]
              /\ \A k \in 1..Len(tk.delays) : tk.delays[k] <= maxDelay
              /\ (tk.pc = "returned") <=> (n = maxRetries + 1)
              /\ (tk.pc = "returned") => tk.reqResult.kind = "err"
              /\ (tk.pc # "returned") => (tk.pc = "await" /\ tk.reqResult = NoResult)

\* C11, its case: a request that failed four times, not always the same way
C11_Witness ==
    /\ task["t1"].pc = "returned"
    /\ task["t1"].answers = <<"H500", "TMO", "NET", "H500">>
    /\ task["t1"].delays = <<1000, 2000, 4000>>
    /\ task["t1"].reqResult.cls = "ApiError"

\* C12: every attempt of a Transport request that was followed by another attempt
\* ended in a 5xx response, a timeout or no response: a 4xx response, to the first
\* attempt or to a later one, is followed by no attempt.
C12_OnlyRetryableFailuresAreRetried ==
    \A t \in Tasks :
        \A i \in 1..(Len(task[t].answers) - 1) : IsRetryable(task[t].answers[i])

\* an attempt that ended at the HTTP level: a response, a timeout or no response
IsHttpOutcome(o) == o = "OK" \/ isAxiosError(o)

\* C13: a Transport request whose attempts ended at the HTTP level and that has
\* ended has one result, decided by its last attempt: the body of the response if
\* that attempt succeeded; a Timeout error if it timed out; a Network error if it
\* got no response; otherwise an Api error with the status and the body of its
\* response. No attempt follows a successful one, and a request that has not ended
\* has no result.
C13_TerminalErrorFromLastAttempt ==
    \A t \in Tasks :
        LET tk == task[t]
            n == Len(tk.answers)
        IN (n >= 1 /\ \A i \in 1..n : IsHttpOutcome(tk.answers[i]))
           => /\ \A i \in 1..(n - 1) : tk.answers[i] # "OK"
              /\ (tk.pc # "returned") => tk.reqResult = NoResult
              /\ (tk.pc = "returned") =>
                    /\ tk.reqResult.req = tk.issued
                    /\ (tk.answers[n] = "OK") =>
                          (tk.reqResult.kind = "ok" /\ tk.reqResult.data = tk.responseData)
                    /\ (tk.answers[n] # "OK") => tk.reqResult.kind = "err"
                    /\ (tk.answers[n] = "TMO") => tk.reqResult.cls = "TimeoutError"
                    /\ (tk.answers[n] = "NET") => tk.reqResult.cls = "NetworkError"
                    /\ (tk.answers[n] \in {"H401", "H404", "H500"}) =>
                          /\ tk.reqResult.cls = "ApiError"
                          /\ tk.reqResult.status = Status(tk.answers[n])
                          /\ tk.reqResult.body = ErrorBody(tk.answers[n])

\* C13, its case: a request that timed out first and ended on a 500 response
C13_Witness ==
    /\ task["t1"].pc = "returned"
    /\ Len(task["t1"].answers) = maxRetries + 1
    /\ task["t1"].answers[1] = "TMO" /\ task["t1"].answers[maxRetries + 1] = "H500"
    /\ task["t1"].reqResult.cls = "ApiError" /\ task["t1"].reqResult.body = "server error"

\* the call of task t ends in this step, on the result of its request
Resumes(t, op) == task[t].op = op /\ task[t].pc = "returned" /\ task'[t].pc = "done"

\* the outcome of the last axios call of the request of a call
LastAnswer(tk) == IF tk.answers = <<>> THEN "NONE" ELSE tk.answers[Len(tk.answers)]

\* C14: a login to which the backend answered 401 fails with an error of the Auth
\* kind and leaves the manager not authenticated, whatever it was before.
C14_LoginInvalidCredentials ==
    [][\A t \in Tasks :
          (Resumes(t, "login") /\ LastAnswer(task[t]) = "H401")
          => (/\ task'[t].result.kind = "err"
              /\ task'[t].result.cls = "AuthError"
              /\ ~authState'.isAuthenticated)]_vars

\* C15: no step of a register() call, its start, the attempts of its request, its
\* end on a response or on an error, changes the auth state: user, tokens, the
\* authenticated flag and the persisted entries are as before the step.
C15_RegisterLeavesAuthState ==
    [][\A t \in Tasks :
          ((task[t].op = "register" \/ task'[t].op = "register") /\ task'[t] # task[t])
          => (authState' = authState /\ store' = store)]_vars

\* C15, its case: a register() that succeeded on a manager that is not authenticated
C15_Witness ==
    /\ task["t1"].op = "register" /\ task["t1"].pc = "done"
    /\ task["t1"].result.kind = "ok"
    /\ ~authState.isAuthenticated /\ authState = EmptyAuthState

\* C16: a refresh() whose request succeeded leaves the new access token in memory
\* and in the persisted entry (where there is a store) and the refresh token, the
\* user and the authenticated flag, in memory and persisted, as they were; one
\* whose request failed leaves the auth state and the persisted entries unchanged.
C16_RefreshReplacesOnlyAccessToken ==
    [][\A t \in Tasks :
          Resumes(t, "refresh")
          => IF task[t].reqResult.kind = "ok"
             THEN /\ authState'.tokens # NoTokens
                  /\ authState'.tokens.accessToken = task[t].reqResult.data.access
                  /\ refreshTokenOf(authState') = refreshTokenOf(authState)
                  /\ authState'.user = authState.user
                  /\ authState'.isAuthenticated = authState.isAuthenticated
                  /\ ~isServer => store'["access_token"] = task[t].reqResult.data.access
                  /\ store'["refresh_token"] = store["refresh_token"]
                  /\ store'["selfdb_user"] = store["selfdb_user"]
             ELSE authState' = authState /\ store' = store]_vars

\* C17: a refresh() called while no refresh token is held ends at once with an
\* Auth error, without a request, and leaves the auth state and the persisted
\* entries unchanged.
C17_RefreshWithoutTokenFails ==
    [][\A t \in Tasks :
          (/\ task[t].pc = "idle" /\ task'[t].op = "refresh"
           /\ ~Truthy(refreshTokenOf(authState)))
          => (/\ task'[t].pc = "done"
              /\ task'[t].result.kind = "err" /\ task'[t].result.cls = "AuthError"
              /\ task'[t].issued = 0 /\ task'[t].sent = 0
              /\ authState' = authState /\ store' = store)]_vars

\* C17, its case: a refresh() after a logout
C17_Witness ==
    /\ task["t1"].op = "refresh" /\ task["t1"].pc = "done"
    /\ task["t1"].result.cls = "AuthError" /\ task["t1"].issued = 0
    /\ ops >= 2 /\ authState = EmptyAuthState

\* C18: a getUser() whose request was rejected with a 401 leaves the auth state
\* cleared, in memory and persisted, and throws the error of the request; one whose
\* request failed at the HTTP level in another way throws that error and leaves the
\* auth state unchanged.
C18_GetUserUnauthorizedClears ==
    [][\A t \in Tasks :
          (/\ Resumes(t, "getUser") /\ task[t].reqResult.kind = "err"
           /\ isAxiosError(LastAnswer(task[t])))
          => (/\ task'[t].result = task[t].reqResult
              /\ IF LastAnswer(task[t]) = "H401"
                 THEN /\ authState' = EmptyAuthState
                      /\ \A k \in Keys : store'[k] = NULL
                 ELSE authState' = authState /\ store' = store)]_vars

\* makeAuthenticatedRequest computes the headers of a request of task t in this
\* step: those of its first request, or those of its retry
ComputesHeaders(t) ==
    /\ task'[t].op = "mar" /\ task'[t].phase \in {"first", "retry"}
    /\ task'[t].issued = task[t].issued + 1

\* the bearer header of the access token held
BearerOf(as) == "Bearer " \o as.tokens.accessToken

\* C19 as stated: the headers of every request of makeAuthenticatedRequest carry
\* the anonymous key if one is configured, and carry an Authorization header if
\* and only if the manager is authenticated when they are computed, then the
\* bearer of the current access token, whatever headers the caller supplied.
C19_HeadersAsStated ==
    [][\A t \in Tasks :
          ComputesHeaders(t)
          => (/\ Truthy(anonKey) => task'[t].headers["apikey"] = anonKey
              /\ (task'[t].headers["Authorization"] # NULL) <=> authState'.isAuthenticated
              /\ authState'.isAuthenticated =>
                    task'[t].headers["Authorization"] = BearerOf(authState'))]_vars

\* C19, amended: the headers of every request of makeAuthenticatedRequest carry the
\* anonymous key if one is configured; if the manager is authenticated when they
\* are computed, their Authorization header is the bearer of the current access
\* token, whatever the caller supplied; if it is not, the manager adds none, and
\* the Authorization header is the one the caller supplied, or absent.
C19_HeadersOfAuthenticatedRequest ==
    [][\A t \in Tasks :
          ComputesHeaders(t)
          => (/\ Truthy(anonKey) => task'[t].headers["apikey"] = anonKey
              /\ task'[t].headers["Authorization"] =
                    (IF authState'.isAuthenticated THEN BearerOf(authState')
                     ELSE task'[t].configHeaders["Authorization"]))]_vars

\* C19, its case: the retry, sent with the refreshed token and the configured key
\* over the headers of the same names the caller supplied
C19_Witness ==
    /\ task["t1"].op = "mar" /\ task["t1"].phase = "retry" /\ task["t1"].pc = "await"
    /\ task["t1"].configHeaders["Authorization"] = "Bearer caller"
    /\ task["t1"].configHeaders["apikey"] = "caller-key"
    /\ task["t1"].headers["Authorization"] = "Bearer a2"
    /\ task["t1"].headers["apikey"] = "anon"
    /\ store["access_token"] = "a2"

----------------------------------------------------------------------------
(* Properties of the Realtime Manager *)

\* the sockets that are open or opening
LiveSockets == {s \in SocketIds : Live(s)}

\* C4: from disconnect() until the caller's next connect(), whatever events of the
\* closed socket are delivered, no reconnect timer is pending, the manager holds
\* no socket and the connection state is connected = connecting = reconnecting =
\* false.
C4_DisconnectStopsReconnect ==
    wantOff => (/\ timers = {}
                /\ ws = NoSocket
                /\ connectionState = IdleConnection)

\* C5: at most one socket created by the manager is open or opening.
C5_AtMostOneLiveSocket == Cardinality(LiveSockets) <= 1

\* retries are exhausted, or auto-reconnect is disabled
GivenUp == ~rtConfig.autoReconnect \/ retryCount >= rtConfig.maxRetries

\* nothing is on its way: no reconnect timer pending, no socket open or opening,
\* not connected
Disconnected == timers = {} /\ LiveSockets = {} /\ ~connectionState.connected

\* C6: a reconnect timer is started only by a socket close, with auto-reconnect
\* enabled and the retry counter below maxRetries, and the counter counts it; so
\* once the retries are exhausted (or with auto-reconnect disabled) and nothing
\* is on its way, no reconnect is scheduled and the manager stays disconnected
\* for as long as no connect() creates a socket.
C6_ReconnectOnlyBelowMaxRetries ==
    [][/\ (timersMade' # timersMade) =>
            /\ rtConfig.autoReconnect /\ retryCount < rtConfig.maxRetries
            /\ retryCount' = retryCount + 1
            /\ timers' = timers \cup {timersMade'}
            /\ \E s \in SocketIds : sockets[s] # "CLOSED" /\ sockets'[s] = "CLOSED"
       /\ (timersMade' = timersMade) => timers' \subseteq timers
       /\ (GivenUp /\ Disconnected) =>
            /\ timers' = {}
            /\ GivenUp'
            /\ (Len(sockets') = Len(sockets)) => Disconnected']_vars

\* C6, its case: auto-reconnect has used up its retries and the manager has stopped
C6_Witness ==
    /\ rtConfig.autoReconnect /\ retryCount = rtConfig.maxRetries
    /\ Disconnected /\ ~wantOff
    /\ connectionState.reconnecting
    /\ \A s \in SocketIds : sockets[s] = "CLOSED"

\* the calls a dispatch made to the callback cb with the argument arg
Calls(invoked, cb, arg) ==
    Cardinality({i \in 1..Len(invoked) : invoked[i].cb = cb /\ invoked[i].arg = arg})

\* C20: an inbound frame that is a message and not a pong has called, once and
\* with the payload of the frame, the callback of every registered subscription
\* on the channel of the frame whose event filter is unset or is the event of the
\* frame, and has called no other callback; a pong frame has called none.
C20_FanOutToMatchingSubscriptions ==
    (dispatched.seen /\ dispatched.frame.parses)
    => IF dispatched.frame.type = "pong"
       THEN dispatched.invoked = <<>>
       ELSE /\ \A i \in 1..Len(subscriptions) :
                 Calls(dispatched.invoked, subscriptions[i].cb, dispatched.frame.payload)
                 = (IF /\ subscriptions[i].channel = dispatched.frame.channel
                       /\ subscriptions[i].event \in {NULL, dispatched.frame.event}
                    THEN 1 ELSE 0)
            /\ \A k \in 1..Len(dispatched.invoked) :
                 \E i \in 1..Len(subscriptions) :
                    /\ subscriptions[i].cb = dispatched.invoked[k].cb
                    /\ dispatched.invoked[k].arg = dispatched.frame.payload

----------------------------------------------------------------------------
(* The connection flags *)

\* C27: in every reachable state of the Realtime Manager, connecting and connected
\* are never both true, and reconnecting true implies connected false
C27_FlagsExclusive ==
    /\ ~(connectionState.connecting /\ connectionState.connected)
    /\ connectionState.reconnecting => ~connectionState.connected

\* a reconnect timer has fired and its socket is opening, and before that a socket
\* had opened: every flag has been set and cleared
C27_Witness ==
    /\ ws # NoSocket /\ sockets[ws] = "CONNECTING"
    /\ connectionState.reconnecting /\ connectionState.connecting
    /\ \E s \in SocketIds : sockets[s] = "CLOSED" /\ handshake[s] # NULL

----------------------------------------------------------------------------
(* The subscription registry *)

\* C22: every subscribe() call adds one new entry to the registry, under an identity
\* that no entry registered before the call has, also when the same channel and
\* event are subscribed again before the clock moves; no subscribe() replaces or
\* removes a registration
C22_SubscribeAddsDistinctEntry ==
    [][subsMade' = subsMade + 1 =>
          /\ Len(subscriptions') = Len(subscriptions) + 1
          /\ SubSeq(subscriptions', 1, Len(subscriptions)) = subscriptions
          /\ ~MapHas(subscriptions, handles'[subsMade'].id)]_vars

----------------------------------------------------------------------------
(* The reconnect delay *)

\* C26 as stated: when a socket close schedules a reconnect, the retry counter is
\* incremented first and the timer is asked for retryDelay * 2^retryCount
\* milliseconds, retryCount being the counter after the increment
C26_DelayAsStated ==
    [][timersMade' = timersMade + 1 =>
          /\ retryCount' = retryCount + 1
          /\ effects'.delay = rtConfig.retryDelay * 2^retryCount']_vars

\* C26 as amended: when a socket close schedules a reconnect, the retry counter is
\* incremented first and the timer is asked for retryDelay * 2^(retryCount - 1)
\* milliseconds, retryCount being the counter after the increment: retryDelay for
\* the first reconnect, doubled for each one that follows
C26_DelayFromIncrementedCount ==
    [][timersMade' = timersMade + 1 =>
          /\ retryCount' = retryCount + 1
          /\ effects'.delay = rtConfig.retryDelay * 2^(retryCount' - 1)]_vars

\* a second reconnect in a row has been scheduled, after twice the retry delay
C26_Witness ==
    /\ retryCount = 2
    /\ effects.delay = 2 * retryDelay
    /\ reconnectTimeout \in timers

----------------------------------------------------------------------------
(* The timers of the Realtime Manager *)

\* C28: at most one heartbeat timer and at most one reconnect timer started by the
\* manager are live at any time, and when disconnect() returns none of the timers
\* the manager ever started is live
C28_TimersOwned ==
    [][/\ Cardinality(intervals') <= 1
       /\ Cardinality(timers') <= 1
       /\ (~wantOff /\ wantOff') => (intervals' = {} /\ timers' = {})]_vars

----------------------------------------------------------------------------
(* connect() *)

\* the credential the SDK holds: the access token when authenticated, else the
\* anonymous key, else the empty string
Credential ==
    IF authState.isAuthenticated /\ authState.tokens # NoTokens
    THEN authState.tokens.accessToken
    ELSE IF anonKey # NULL THEN anonKey ELSE ""

\* C25: whenever a connect() call resolves, the socket is open, the authenticate
\* frame carrying the credential has been sent on it, the state is connected, the
\* retry counter is zero and the heartbeat is running; also for a caller that
\* called connect() while another connect() was in progress
C25_ResolvedMeansConnected ==
    effects.resolved =>
        /\ IsOpen(ws)
        /\ handshake[ws] = Credential
        /\ connectionState.connected
        /\ retryCount = 0
        /\ heartbeatInterval \in intervals

----------------------------------------------------------------------------
(* unsubscribe(id) *)

\* C24: unsubscribe(id) with a registered id removes exactly that registration,
\* leaves every other registration as it was, and sends one unsubscribe frame with
\* the subscription's channel and event if and only if the socket is open;
\* unsubscribe(id) with an unknown id changes nothing and sends no frame
C24_UnsubscribeRemovesOne ==
    [][effects'.unsubscribe # NoId =>
          LET id == effects'.unsubscribe
          IN  IF MapHas(subscriptions, id)
              THEN /\ ~MapHas(subscriptions', id)
                   /\ Len(subscriptions') = Len(subscriptions) - 1
                   /\ \A i \in 1..Len(subscriptions) :
                         subscriptions[i].id # id =>
                            \E j \in 1..Len(subscriptions') :
                                subscriptions'[j] = subscriptions[i]
                   /\ IF ws # NoSocket /\ sockets[ws] = "OPEN"
                      THEN /\ effects'.sent =
                                <<[type |-> "unsubscribe",
                                   channel |-> MapGet(subscriptions, id).channel,
                                   event |-> MapGet(subscriptions, id).event,
                                   token |-> NULL]>>
                           /\ effects'.on = ws
                      ELSE effects'.sent = <<>>
              ELSE /\ effects'.sent = <<>>
                   /\ UNCHANGED <<subscriptions, ws, sockets, connectionState,
                                  reconnectTimeout, timers, heartbeatInterval, intervals,
                                  retryCount>>]_vars

\* unsubscribe was called with the id of one of two registrations, on an open
\* socket, and the frame went out
C24_Witness ==
    /\ effects.unsubscribe # NoId
    /\ effects.sent # <<>>
    /\ Len(subscriptions) >= 1

----------------------------------------------------------------------------
(* Subscriptions and reconnects *)

\* C23: subscribe() called while the socket is not open registers the subscription
\* and sends no frame; the close of a socket, the reconnect that follows and the
\* opening of the new socket leave the registry as it was, and send no subscribe
\* frame for the subscriptions registered already
C23_NoReplayOnReconnect ==
    [][/\ (subsMade' = subsMade + 1 /\ ~(ws # NoSocket /\ sockets[ws] = "OPEN")) =>
             /\ effects'.sent = <<>>
             /\ \E i \in 1..Len(subscriptions') :
                    /\ subscriptions'[i].cb = subsMade'
                    /\ subscriptions'[i].id = handles'[subsMade'].id
       /\ sockets' # sockets =>
             /\ subscriptions' = subscriptions
             /\ \A i \in 1..Len(effects'.sent) : effects'.sent[i].type # "subscribe"]_vars

\* a first socket was closed, the reconnect timer has fired, a second socket has
\* just opened and only the authenticate frame went out on it, while a subscription
\* made when no socket was open is registered
C23_Witness ==
    /\ Len(sockets) = 2 /\ sockets[1] = "CLOSED" /\ handshake[1] # NULL
    /\ timersMade = 1 /\ timers = {}
    /\ ws = 2 /\ sockets[2] = "OPEN"
    /\ Len(effects.sent) = 1 /\ effects.sent[1].type = "authenticate"
    /\ Len(subscriptions) >= 1

\* C21: once unsubscribe(id) was called for a subscription, no frame dispatched
\* afterwards calls the callback of that subscription, whatever the connection
\* state and however many reconnects there were
C21_UnsubscribedNeverInvoked ==
    \A i \in 1..Len(dispatched.invoked) : ~handles[dispatched.invoked[i].cb].off

\* after a reconnect, a frame came for a channel on which one subscription was
\* unsubscribed and another is registered: the callback of the other was called
C21_Witness ==
    /\ dispatched.seen
    /\ Len(dispatched.invoked) >= 1
    /\ \E k \in 1..Len(handles) :
          handles[k].off /\ handles[k].channel = dispatched.frame.channel
    /\ \E s \in SocketIds : sockets[s] = "CLOSED"

----------------------------------------------------------------------------
(* makeAuthenticatedRequest: one refresh, one retry, one after the other *)

\* C29: a makeAuthenticatedRequest call makes at most one refresh call and hands
\* the original request to Transport at most twice, whatever the outcomes; the
\* refresh is started only after the first request has failed, and the retry only
\* after the refresh has completed
C29_OneRefreshOneRetryInTurn ==
    [][\A t \in Tasks :
          task'[t].op = "mar" =>
             /\ task'[t].refreshCalls <= 1
             /\ task'[t].requests <= 2
             /\ task'[t].issued <= 3
             /\ (task[t].op = "mar" /\ task'[t].refreshCalls > task[t].refreshCalls) =>
                   /\ task[t].pc = "returned" /\ task[t].reqResult.kind = "err"
                   /\ task[t].requests = 1 /\ task[t].issued = 1
             /\ (task[t].op = "mar" /\ task'[t].requests > task[t].requests) =>
                   /\ task[t].pc = "returned" /\ task[t].reqResult.kind = "ok"
                   /\ task[t].refreshCalls = 1 /\ task[t].issued = 2]_vars

\* a call whose first request failed, whose refresh succeeded and whose retry
\* failed has ended
C29_Witness ==
    \E t \in Tasks :
        /\ task[t].op = "mar" /\ task[t].pc = "done"
        /\ task[t].refreshCalls = 1 /\ task[t].requests = 2 /\ task[t].issued = 3
        /\ task[t].result.kind = "err"

----------------------------------------------------------------------------
(* update and delete without an id condition *)

\* the codes of the errors update and delete throw for the conditions they refuse
ValidationCodes ==
    {"UPDATE_NO_WHERE", "UPDATE_UNSUPPORTED_WHERE",
     "DELETE_NO_WHERE", "DELETE_UNSUPPORTED_WHERE"}

\* C30: an update or a delete, of the query builder or of DatabaseClient, whose
\* conditions have none on id has thrown a validation error and has issued no
\* request, also when it has conditions on other columns
C30_NoIdNoRequest ==
    (dbCall.op \in {"update", "delete"} /\ dbCall.where["id"] = NULL) =>
        /\ dbCall.error \in ValidationCodes
        /\ dbCall.requests = <<>>

----------------------------------------------------------------------------
(* The specification of Config: callers that initialize the SDK, ask for the
   singleton and update it *)

InitCfg == InitAuthIdle /\ InitRealtimeIdle /\ InitDbIdle /\ InitConfig

\* the object literals a caller passes: any of the properties, with these values
Literals ==
    {Literal(present, b, s, k, h, t) :
        present \in SUBSET ConfigFields, b \in BaseUrls, s \in StorageUrls,
        k \in ConfigKeys, h \in ConfigHeaders, t \in Timeouts}

NextCfg ==
    \/ \E c \in Literals :
          /\ {"baseUrl", "anonKey"} \subseteq DOMAIN c
          /\ ConfigInit(c)
    \/ ConfigGetInstance
    \/ \E u \in Literals : ConfigUpdateConfig(u)

SpecCfg == InitCfg /\ [][NextCfg]_vars

----------------------------------------------------------------------------
(* Properties of Config *)

\* C31: getInstance() throws the not-initialized error while init() was never
\* called; after init() calls it returns the object the most recent init() made
\* (and returned), the same on every call until the next init().
C31_GetInstanceIsLatestInit ==
    /\ cfgCall.op = "getInstance" =>
          IF made = 0
          THEN cfgCall.threw /\ cfgCall.returned = NoInstance
          ELSE ~cfgCall.threw /\ cfgCall.returned = made
    /\ cfgCall.op = "init" => ~cfgCall.threw /\ cfgCall.returned = made

\* getInstance() after a second init()
C31_Witness == cfgCall.op = "getInstance" /\ made = 2 /\ cfgCall.returned = 2

\* C32: updateConfig(updates) replaces exactly the scalar fields present in
\* updates and leaves the scalar fields absent from it unchanged; it merges
\* updates.headers into the headers there are: a key the update names takes the
\* new value, a key it does not name keeps its value.
C32_UpdateReplacesScalarsMergesHeaders ==
    [][cfgCall'.op = "updateConfig" =>
          LET u == cfgCall'.updates
          IN /\ \A f \in ScalarFields :
                   instanceConfig'[f] = IF f \in DOMAIN u THEN u[f] ELSE instanceConfig[f]
             /\ \A h \in HeaderNames :
                   instanceConfig'.headers[h] =
                       IF "headers" \in DOMAIN u /\ u.headers[h] # NULL
                       THEN u.headers[h] ELSE instanceConfig.headers[h]]_vars

\* an update that names one header and one scalar, over a config that has another
\* header and other scalars
C32_Witness ==
    /\ cfgCall.op = "updateConfig"
    /\ DOMAIN cfgCall.updates = {"anonKey", "headers"}
    /\ cfgCall.updates.headers["Accept"] = "json"
    /\ cfgCall.updates.headers["apikey"] = NULL
    /\ instanceConfig.headers["apikey"] = "caller-key"
    /\ instanceConfig.headers["Accept"] = "json"
    /\ instanceConfig.timeout = 5000

----------------------------------------------------------------------------
(* Properties of the Auth Manager over a localStorage that may throw *)

----------------------------------------------------------------------------
(* Properties of the Auth Manager under calls that overlap *)

\* C34: the response to a getUser, a refresh or a makeAuthenticatedRequest whose
\* request was issued before a logout() changes nothing of the auth state after
\* that logout: the user, the tokens and the persisted entries stay as the logout,
\* or a login completed since, left them.
C34_LateResponsesChangeNothing ==
    [][\A t \in Tasks :
          (/\ task[t].stale
           /\ task[t].op \in {"getUser", "refresh", "mar"}
           /\ task[t].pc = "returned"
           /\ task'[t] # task[t])
             => authState' = authState /\ store' = store]_vars

----------------------------------------------------------------------------
(* Properties of the persisted session *)

\* the persisted entries agree with the auth state
PersistedAgrees(as, st) ==
    IF as.isAuthenticated
    THEN /\ as.tokens # NoTokens
         /\ st["access_token"] = as.tokens.accessToken
         /\ st["refresh_token"] = as.tokens.refreshToken
         /\ st["selfdb_user"] = JSONstringify(as.user)
    ELSE \A k \in Keys : st[k] = NULL

\* C36: with a working key-value store, after every completed login, refresh,
\* getUser or logout the persisted entries agree with the auth state (the three
\* entries of the session when authenticated, none when not), and a new Auth
\* Manager constructed over the store has exactly that auth state.
C36_PersistThenRestoreIsIdentity ==
    [][\A t \in Tasks :
          (/\ ~isServer /\ throwing = {}
           /\ task[t].pc # "done" /\ task'[t].pc = "done"
           /\ task'[t].op \in {"login", "refresh", "getUser", "logout"}
           /\ task'[t].result.kind = "ok")
             => /\ PersistedAgrees(authState', store')
                /\ loadAuthState(EmptyAuthState, store').auth = authState']_vars

----------------------------------------------------------------------------
(* Properties of the events of sockets the manager no longer holds *)

\* C35: an event of a socket that is not the manager's current socket (one that
\* disconnect() closed, or one a later connect() replaced) changes nothing about
\* the connection: it leaves the connected and the connecting flag, it stops no
\* heartbeat, it schedules no reconnect and it leaves the retry counter.
C35_StaleSocketEventsChangeNothing ==
    [][\A s \in SocketIds :
          (/\ Len(sockets') = Len(sockets)
           /\ sockets'[s] # sockets[s]
           /\ s # ws)
             => /\ connectionState'.connected = connectionState.connected
                /\ connectionState'.connecting = connectionState.connecting
                /\ intervals' = intervals
                /\ heartbeatInterval' = heartbeatInterval
                /\ timers' = timers
                /\ retryCount' = retryCount]_vars

----------------------------------------------------------------------------
(* The specification of the Realtime Manager with a caller that subscribes: the
   manager, its sockets and timers as in SpecRT, and a caller that subscribes to
   one channel and unsubscribes. The sockets of a behaviour are one fewer than
   MaxSockets, the registry beside them being what is added here. *)

InitRetry == InitAuthIdle /\ InitRealtime /\ InitDbIdle /\ InitConfig

NextRetry ==
    \/ Len(sockets) < MaxSockets - 1 /\ Connect
    \/ Disconnect
    \/ \E tm \in timers : Len(sockets) < MaxSockets - 1 /\ TimerFires(tm)
    \/ \E s \in SocketIds : SocketOpens(s)
    \/ \E s \in SocketIds : SocketErrors(s)
    \/ \E s \in SocketIds : SocketCloses(s)
    \/ Subscribe("c1", NULL, FALSE)
    \/ \E i \in 1..Len(subscriptions) : Unsubscribe(subscriptions[i].id)

SpecRetry == InitRetry /\ [][NextRetry]_vars

\* C37: 0 <= retryCount <= maxRetries in every reachable state; the counter is
\* incremented only when a socket close schedules a reconnect, by one, and it is
\* reset to zero only by a socket open that succeeds; disconnect(), subscribe(),
\* unsubscribe() and a connect() that fails leave it unchanged.
C37_RetryCountBounded ==
    [][/\ 0 <= retryCount' /\ retryCount' <= rtConfig.maxRetries
       /\ retryCount' > retryCount =>
             /\ retryCount' = retryCount + 1
             /\ timersMade' = timersMade + 1
             /\ \E s \in SocketIds : sockets[s] # "CLOSED" /\ sockets'[s] = "CLOSED"
       /\ retryCount' < retryCount =>
             /\ retryCount' = 0
             /\ connectionState'.connected
             /\ \E s \in SocketIds : sockets[s] = "CONNECTING" /\ sockets'[s] = "OPEN"
       /\ (\/ ~wantOff /\ wantOff'
           \/ subsMade' = subsMade + 1
           \/ effects'.unsubscribe # NoId
           \/ \E s \in SocketIds : sockets[s] = "CONNECTING" /\ sockets'[s] = "ERRORED"
           \/ Len(sockets') = Len(sockets) + 1)
             => retryCount' = retryCount]_vars

\* the retries are used up, and the caller subscribed and disconnected meanwhile
C37_Witness ==
    /\ retryCount = rtConfig.maxRetries /\ retryCount > 0
    /\ subsMade > 0
    /\ wantOff

----------------------------------------------------------------------------
(* Properties of the dispatch under callbacks that throw *)

\* C38: in the dispatch of one inbound message, a callback that throws does not
\* keep the message from the other matching subscriptions: each of them is called,
\* once; and the dispatch leaves the connection state and the registry as they
\* were.
C38_ThrowingCallbackIsIsolated ==
    [][(/\ dispatched'.seen /\ dispatched' # dispatched
        /\ dispatched'.frame.parses /\ dispatched'.frame.type # "pong")
          => /\ \A i \in 1..Len(subscriptions) :
                   (/\ subscriptions[i].channel = dispatched'.frame.channel
                    /\ subscriptions[i].event \in {NULL, dispatched'.frame.event})
                      => Calls(dispatched'.invoked, subscriptions[i].cb,
                               dispatched'.frame.payload) = 1
             /\ connectionState' = connectionState
             /\ subscriptions' = subscriptions]_vars

----------------------------------------------------------------------------
(* Properties of the reconnecting flag *)

\* C39: reconnecting = true implies that a reconnect timer is pending or that a
\* connection attempt is in progress (a socket is opening, or has failed and its
\* close event is still to come); once the retries are exhausted and nothing is
\* on its way, the connection state is connected = false, connecting = false,
\* reconnecting = false.
C39_ReconnectingMeansUnderWay ==
    /\ connectionState.reconnecting =>
          (timers # {} \/ \E s \in SocketIds : sockets[s] \in {"CONNECTING", "ERRORED"})
    /\ (/\ rtConfig.autoReconnect /\ retryCount >= rtConfig.maxRetries
        /\ Disconnected /\ \A s \in SocketIds : sockets[s] = "CLOSED")
          => connectionState = IdleConnection

----------------------------------------------------------------------------
(* The specification of the reconnection under fairness *)

\* an established connection of the manager: socket s opened as this.ws and the
\* authenticate frame went out on it (lines 51-61)
Established(s) == handshake[s] # NULL

\* sockets enough are left for every retry that a failure can start
RoomForRetries == Len(sockets) + rtConfig.maxRetries <= MaxSockets

\* the server refuses the connection attempt s: it does so only while the close
\* that follows schedules another attempt (line 116)
ServerRefuses(s) ==
    /\ sockets[s] = "CONNECTING"
    /\ shouldReconnect(rtConfig, retryCount)
    /\ SocketErrors(s)

\* the connection s, open, fails or is closed by the server
ConnectionFails(s) ==
    /\ sockets[s] = "OPEN"
    /\ RoomForRetries
    /\ (SocketErrors(s) \/ SocketCloses(s))

\* the close event of a socket whose error event was delivered
ErroredSocketCloses(s) == sockets[s] = "ERRORED" /\ SocketCloses(s)

InitLive == InitAuthIdle /\ InitRealtimeIdle /\ InitDbIdle /\ InitConfig

\* the caller connects, and calls connect() again only where it returns at once
\* (line 41): the reconnections are left to the timers
CallerConnects ==
    /\ sockets = <<>> \/ connectionState.connected \/ connectionState.connecting
    /\ Connect

NextLive ==
    \/ CallerConnects
    \/ \E tm \in timers : TimerFires(tm)
    \/ \E s \in SocketIds : SocketOpens(s)
    \/ \E s \in SocketIds : ServerRefuses(s)
    \/ \E s \in SocketIds : ConnectionFails(s)
    \/ \E s \in SocketIds : ErroredSocketCloses(s)
    \/ \E iv \in intervals : HeartbeatFires(iv)
    \/ Subscribe("c1", NULL, FALSE)
    \/ \E i \in 1..Len(subscriptions) : Unsubscribe(subscriptions[i].id)

\* timers fire and the events of a socket are delivered: a socket that is opening
\* opens unless it is refused, and a socket that failed closes
FairLive ==
    /\ WF_vars(\E tm \in timers : TimerFires(tm))
    /\ WF_vars(\E s \in SocketIds : SocketOpens(s))
    /\ WF_vars(\E s \in SocketIds : ErroredSocketCloses(s))

SpecLive == InitLive /\ [][NextLive]_vars /\ FairLive

\* connected again: the state is connected, the retry counter is zero and the
\* heartbeat interval is live
Reconnected ==
    /\ connectionState.connected
    /\ retryCount = 0
    /\ heartbeatInterval # NoTimer /\ heartbeatInterval \in intervals

\* C40: with auto-reconnect, no disconnect(), timers that fire, socket events that
\* are delivered and a server that accepts an attempt before the retries run out:
\* when an established connection has closed and the manager is not connected,
\* it is eventually connected again with the retry counter zero and the heartbeat
\* running.
C40_ClosedConnectionReconnects ==
    ((\E s \in SocketIds : Established(s) /\ sockets[s] = "CLOSED")
        /\ ~connectionState.connected) ~> Reconnected

\* an established connection has closed, an attempt of a reconnect timer was
\* refused, and a later socket is the connection, with the counter back at zero
C40_Witness ==
    /\ Reconnected
    /\ ws # NoSocket /\ sockets[ws] = "OPEN"
    /\ \E s \in SocketIds : Established(s) /\ sockets[s] = "CLOSED" /\ s < ws
    /\ \E s \in SocketIds : ~Established(s) /\ sockets[s] = "CLOSED" /\ s < ws
    /\ timersMade >= 2

====
